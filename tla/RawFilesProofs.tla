--------------------------- MODULE RawFilesProofs ---------------------------
(***************************************************************************)
(* Theorems about RawFiles: what the files hold, for any number of uploads *)
(* of any size under any names, with failed writes and crashes.            *)
(***************************************************************************)
EXTENDS RawFiles, SequenceTheorems, WellFoundedInduction, TLAPS

\* The first n chunks of body.
Prefix(body, n) == [i \in 1..n |-> body]

\* The place of an upload that has its file open.
UploadOK(r, files) ==
    /\ r.pc \in {"idle", "create", "write", "reply"}
    /\ r.at \in Nat
    /\ r.pc # "idle" => r.body \in Bodies
    /\ r.pc = "create" => r.at = 0
    /\ r.pc \in {"write", "reply"} => /\ r.file \in files
                                      /\ r.at <= Size[r.body]
    /\ r.pc = "reply" => r.at = Size[r.body]

Types ==
    /\ \A f \in DOMAIN storage : storage[f] \in Seq(Bodies \cup {None})
    /\ second \in 0..MaxSecond
    /\ mixed \subseteq DOMAIN storage
    /\ answered \subseteq (DOMAIN storage) \X Bodies
    /\ faults \in 0..MaxFaults
    /\ DOMAIN upload = Conns
    /\ \A c \in Conns : UploadOK(upload[c], DOMAIN storage)

\* A file that is not mixed has at most one writer, and holds what this one
\* wrote.
LoneWriter ==
    \A c \in Conns, f \in DOMAIN storage :
        Open(c, f) /\ f \notin mixed =>
            /\ storage[f] = Prefix(upload[c].body, upload[c].at)
            /\ \A d \in Conns : Open(d, f) => d = c

\* Nobody writes to a file whose upload was answered.
Settled ==
    \A p \in answered : /\ storage[p[1]] = Whole(p[2])
                        /\ \A c \in Conns : ~Open(c, p[1])

Inv == Types /\ LoneWriter /\ Settled

-----------------------------------------------------------------------------
(* Files *)

LEMMA MaxLemma ==
    ASSUME NEW i \in Nat, NEW n \in Nat
    PROVE  Max({i, n}) = IF i >= n THEN i ELSE n
<1>1. \E x \in {i, n} : \A y \in {i, n} : x >= y
  OBVIOUS
<1>2. Max({i, n}) \in {i, n} /\ Max({i, n}) >= i /\ Max({i, n}) >= n
  BY <1>1 DEF Max
<1> QED  BY <1>2

\* A write leaves a file that is made of chunks and holes.
LEMMA WriteAtType ==
    ASSUME NEW s \in Seq(Bodies \cup {None}), NEW i \in Nat \ {0}, NEW b \in Bodies
    PROVE  WriteAt(s, i, b) \in Seq(Bodies \cup {None})
<1> DEFINE m == Max({i, Len(s)})
           S == Bodies \cup {None}
<1>1. Len(s) \in Nat /\ DOMAIN s = 1..Len(s) /\ \A j \in 1..Len(s) : s[j] \in S
  OBVIOUS
<1>2. m \in Nat
  BY <1>1, MaxLemma
<1>3. WriteAt(s, i, b) = [j \in 1..m |->
          IF j = i THEN b ELSE IF j \in DOMAIN s THEN s[j] ELSE None]
  BY DEF WriteAt
<1>4. b \in S /\ None \in S
  OBVIOUS
<1> HIDE DEF m, S
<1>5. WriteAt(s, i, b) \in [1..m -> S]
  BY <1>1, <1>3, <1>4
<1>6. WriteAt(s, i, b) \in Seq(S)
  BY <1>2, <1>5
<1> QED  BY <1>6 DEF S

\* The write of the next chunk after the first n.
LEMMA NextChunk ==
    ASSUME NEW b \in Bodies, NEW n \in Nat
    PROVE  WriteAt(Prefix(b, n), n + 1, b) = Prefix(b, n + 1)
<1> DEFINE s == Prefix(b, n)
<1>1. Len(s) = n /\ DOMAIN s = 1..n /\ \A j \in 1..n : s[j] = b
  BY DEF Prefix
<1> HIDE DEF s
<1>2. Max({n + 1, Len(s)}) = n + 1
  BY <1>1, MaxLemma
<1>3. WriteAt(s, n + 1, b) = [j \in 1..(n + 1) |->
          IF j = n + 1 THEN b ELSE IF j \in DOMAIN s THEN s[j] ELSE None]
  BY <1>2 DEF WriteAt
<1>4. \A j \in 1..(n + 1) :
          (IF j = n + 1 THEN b ELSE IF j \in DOMAIN s THEN s[j] ELSE None) = b
  BY <1>1
<1>5. WriteAt(s, n + 1, b) = [j \in 1..(n + 1) |-> b]
  BY <1>3, <1>4
<1> QED  BY <1>5 DEF Prefix, s

\* os.Create: an empty file, the others as they were.
LEMMA CreatedLemma ==
    ASSUME NEW f
    PROVE  /\ DOMAIN Created(f) = DOMAIN storage \cup {f}
           /\ Created(f)[f] = <<>>
           /\ \A g \in DOMAIN storage : g # f => Created(f)[g] = storage[g]
  BY DEF Created

-----------------------------------------------------------------------------
(* Steps *)

\* At first there is no file and every goroutine is idle.
LEMMA InitInv == Init => Inv
<1> SUFFICES ASSUME Init PROVE Inv
  OBVIOUS
<1>1. DOMAIN storage = {} /\ \A c \in Conns : upload[c] = IdleUpload
  BY DEF Init
<1>2. UploadOK(IdleUpload, DOMAIN storage)
  BY DEF UploadOK, IdleUpload
<1>3. Types
  BY <1>1, <1>2, BoundAssumption DEF Init, Types
<1> QED  BY <1>1, <1>3 DEF Init, Inv, LoneWriter, Settled

\* An upload that ends, or one that begins, writes to no file.
LEMMA OneUpload ==
    ASSUME Inv, NEW c \in Conns, NEW r, upload' = [upload EXCEPT ![c] = r],
           UploadOK(r, DOMAIN storage), r.pc \in {"idle", "create"},
           storage' = storage, second' = second, faults' \in 0..MaxFaults,
           mixed \subseteq mixed', mixed' \subseteq DOMAIN storage,
           answered' = answered
    PROVE  Inv'
<1>1. /\ upload'[c] = r /\ DOMAIN upload' = Conns
      /\ \A d \in Conns : d # c => upload'[d] = upload[d]
  BY DEF Inv, Types
<1>2. \A d \in Conns : UploadOK(upload'[d], DOMAIN storage')
  BY <1>1 DEF Inv, Types
<1>3. Types'
  BY <1>1, <1>2 DEF Inv, Types, UploadOK
<1>4. \A d \in Conns : \A f : Open(d, f)' => Open(d, f) /\ upload'[d] = upload[d]
  BY <1>1 DEF Open
<1>5. LoneWriter'
  BY <1>4 DEF Inv, LoneWriter
<1>6. Settled'
  BY <1>4 DEF Inv, Settled
<1> QED  BY <1>3, <1>5, <1>6 DEF Inv

LEMMA CreateInv == ASSUME Inv, NEW c \in Conns, Create(c)  PROVE Inv'
<1>1. PICK f : f = upload[c].file
  OBVIOUS
<1>2. /\ upload[c].pc = "create"
      /\ storage' = Created(f)
      /\ upload' = [upload EXCEPT ![c].pc = "write"]
      /\ mixed' = IF \E d \in Conns : Open(d, f) THEN mixed \cup {f} ELSE mixed \ {f}
      /\ answered' = {p \in answered : p[1] # f}
      /\ second' = second /\ faults' = faults
  BY <1>1 DEF Create
<1>3. /\ DOMAIN storage' = DOMAIN storage \cup {f} /\ storage'[f] = <<>>
      /\ \A g \in DOMAIN storage : g # f => storage'[g] = storage[g]
  BY <1>2, CreatedLemma
<1>4. /\ DOMAIN upload' = Conns
      /\ \A d \in Conns : d # c => upload'[d] = upload[d]
      /\ upload[c].body \in Bodies /\ upload[c].at = 0
      /\ upload'[c] = [upload[c] EXCEPT !.pc = "write"]
  BY <1>2 DEF Inv, Types, UploadOK
<1>5. /\ upload'[c].body = upload[c].body
      /\ upload'[c].at = 0 /\ upload'[c].file = f
      /\ upload'[c].pc \in {"idle", "write"}
  BY <1>1, <1>4
<1>6. UploadOK(upload'[c], DOMAIN storage')
  BY <1>3, <1>4, <1>5, BodyAssumption DEF UploadOK
<1>7. \A d \in Conns : d # c => UploadOK(upload'[d], DOMAIN storage')
  BY <1>3, <1>4 DEF Inv, Types, UploadOK
<1>8. Types'
  <2>1. \A g \in DOMAIN storage' : storage'[g] \in Seq(Bodies \cup {None})
    <3>1. <<>> \in Seq(Bodies \cup {None})
      OBVIOUS
    <3> QED  BY <1>3, <3>1 DEF Inv, Types
  <2>2. mixed' \subseteq DOMAIN storage' /\ answered' \subseteq (DOMAIN storage') \X Bodies
    BY <1>2, <1>3 DEF Inv, Types
  <2> QED  BY <1>2, <1>4, <1>6, <1>7, <2>1, <2>2 DEF Inv, Types
<1>9. \A d \in Conns : \A g : d # c => (Open(d, g)' <=> Open(d, g))
  BY <1>4 DEF Open
<1>10. \A g : Open(c, g)' => g = f
  BY <1>5 DEF Open
<1>11. LoneWriter'
  <2> SUFFICES ASSUME NEW d \in Conns, NEW g \in DOMAIN storage', Open(d, g)',
                      g \notin mixed'
               PROVE  /\ storage'[g] = Prefix(upload'[d].body, upload'[d].at)
                      /\ \A e \in Conns : Open(e, g)' => e = d
    BY DEF LoneWriter
  <2>1. CASE g = f
    <3>1. \A e \in Conns : ~Open(e, f)
      BY <1>2, <2>1
    <3>2. \A e \in Conns : Open(e, f)' => e = c
      BY <1>9, <3>1
    <3>3. d = c /\ upload'[d].at = 0
      BY <1>5, <2>1, <3>2
    <3>4. Prefix(upload'[d].body, 0) = <<>>
      BY DEF Prefix
    <3> QED  BY <1>3, <2>1, <3>2, <3>3, <3>4
  <2>2. CASE g # f
    <3>1. d # c /\ Open(d, g) /\ upload'[d] = upload[d]
      BY <1>4, <1>9, <1>10, <2>2
    <3>2. g \in DOMAIN storage /\ storage'[g] = storage[g] /\ g \notin mixed
      BY <1>2, <1>3, <2>2
    <3>3. \A e \in Conns : Open(e, g)' => e = d
      BY <1>9, <1>10, <2>2, <3>1, <3>2 DEF Inv, LoneWriter
    <3> QED  BY <3>1, <3>2, <3>3 DEF Inv, LoneWriter
  <2> QED  BY <2>1, <2>2
<1>12. Settled'
  BY <1>2, <1>3, <1>9, <1>10 DEF Inv, Types, Settled
<1> QED  BY <1>8, <1>11, <1>12 DEF Inv

LEMMA WriteInv == ASSUME Inv, NEW c \in Conns, Write(c)  PROVE Inv'
<1>1. PICK r, f : r = upload[c] /\ f = r.file
  OBVIOUS
<1>2. /\ r.pc = "write" /\ More(r)
      /\ storage' = [storage EXCEPT ![f] = WriteAt(@, r.at + 1, r.body)]
      /\ upload' = [upload EXCEPT ![c].at = @ + 1]
      /\ second' = second /\ mixed' = mixed /\ answered' = answered /\ faults' = faults
  BY <1>1 DEF Write
<1>3. /\ UploadOK(r, DOMAIN storage) /\ f \in DOMAIN storage /\ r.at \in Nat /\ r.body \in Bodies
      /\ Size[r.body] \in Nat /\ Open(c, f)
  BY <1>1, <1>2, BodyAssumption DEF Inv, Types, UploadOK, Open
<1>4. /\ DOMAIN storage' = DOMAIN storage
      /\ storage'[f] = WriteAt(storage[f], r.at + 1, r.body)
      /\ \A g \in DOMAIN storage : g # f => storage'[g] = storage[g]
  BY <1>2, <1>3
<1>5. /\ DOMAIN upload' = Conns
      /\ \A d \in Conns : d # c => upload'[d] = upload[d]
      /\ upload'[c].pc = r.pc /\ upload'[c].file = f /\ upload'[c].body = r.body
      /\ upload'[c].at = r.at + 1
  BY <1>1, <1>2 DEF Inv, Types
<1>6. UploadOK(upload'[c], DOMAIN storage')
  BY <1>2, <1>3, <1>4, <1>5 DEF UploadOK, More
<1>7. \A d \in Conns : d # c => UploadOK(upload'[d], DOMAIN storage')
  BY <1>4, <1>5 DEF Inv, Types, UploadOK
<1>8. Types'
  <2>1. storage'[f] \in Seq(Bodies \cup {None})
    <3>1. storage[f] \in Seq(Bodies \cup {None})
      BY <1>3 DEF Inv, Types
    <3>2. r.at + 1 \in Nat \ {0}
      BY <1>3
    <3>3. WriteAt(storage[f], r.at + 1, r.body) \in Seq(Bodies \cup {None})
      BY <1>3, <3>1, <3>2, WriteAtType
    <3> QED  BY <1>4, <3>3
  <2>2. \A g \in DOMAIN storage' : storage'[g] \in Seq(Bodies \cup {None})
    BY <1>4, <2>1 DEF Inv, Types
  <2> QED  BY <1>2, <1>4, <1>5, <1>6, <1>7, <2>2 DEF Inv, Types
<1>9. \A d \in Conns : \A g : Open(d, g)' <=> Open(d, g)
  BY <1>1, <1>5 DEF Open
<1>10. LoneWriter'
  <2> SUFFICES ASSUME NEW d \in Conns, NEW g \in DOMAIN storage, Open(d, g),
                      g \notin mixed
               PROVE  /\ storage'[g] = Prefix(upload'[d].body, upload'[d].at)
                      /\ \A e \in Conns : Open(e, g) => e = d
    BY <1>2, <1>4, <1>9 DEF LoneWriter
  <2>1. /\ storage[g] = Prefix(upload[d].body, upload[d].at)
        /\ \A e \in Conns : Open(e, g) => e = d
    BY DEF Inv, LoneWriter
  <2>2. CASE g = f
    <3>1. d = c
      BY <1>3, <2>1, <2>2
    <3>2. storage'[f] = WriteAt(Prefix(r.body, r.at), r.at + 1, r.body)
      BY <1>1, <1>4, <2>1, <2>2, <3>1
    <3>3. storage'[f] = Prefix(r.body, r.at + 1)
      BY <1>3, <3>2, NextChunk
    <3> QED  BY <1>5, <2>1, <2>2, <3>1, <3>3
  <2>3. CASE g # f
    <3>1. d # c
      BY <1>1, <2>3 DEF Open
    <3> QED  BY <1>4, <1>5, <2>1, <2>3, <3>1
  <2> QED  BY <2>2, <2>3
<1>11. Settled'
  BY <1>2, <1>3, <1>4, <1>9 DEF Inv, Types, Settled
<1> QED  BY <1>8, <1>10, <1>11 DEF Inv

LEMMA WrittenInv == ASSUME Inv, NEW c \in Conns, Written(c)  PROVE Inv'
<1>1. PICK r : r = upload[c]
  OBVIOUS
<1>2. /\ r.pc = "write" /\ ~More(r)
      /\ upload' = [upload EXCEPT ![c].pc = "reply"]
      /\ storage' = storage /\ second' = second /\ mixed' = mixed
      /\ answered' = answered /\ faults' = faults
  BY <1>1 DEF Written
<1>3. UploadOK(r, DOMAIN storage) /\ Size[r.body] \in Nat /\ r.at \in Nat
  BY <1>1, <1>2, BodyAssumption DEF Inv, Types, UploadOK
<1>4. /\ DOMAIN upload' = Conns
      /\ \A d \in Conns : d # c => upload'[d] = upload[d]
      /\ upload'[c].pc = "reply" /\ upload'[c].file = r.file
      /\ upload'[c].body = r.body /\ upload'[c].at = r.at
  BY <1>1, <1>2 DEF Inv, Types
<1>5. UploadOK(upload'[c], DOMAIN storage')
  BY <1>2, <1>3, <1>4 DEF UploadOK, More
<1>6. Types'
  BY <1>2, <1>4, <1>5 DEF Inv, Types, UploadOK
<1>7. \A d \in Conns : \A g : Open(d, g)' <=> Open(d, g)
  BY <1>1, <1>2, <1>4 DEF Open
<1>8. \A d \in Conns : upload'[d].body = upload[d].body /\ upload'[d].at = upload[d].at
  BY <1>1, <1>4
<1>9. LoneWriter' /\ Settled'
  BY <1>2, <1>7, <1>8 DEF Inv, LoneWriter, Settled
<1> QED  BY <1>6, <1>9 DEF Inv

LEMMA ReplyInv == ASSUME Inv, NEW c \in Conns, Reply(c)  PROVE Inv'
<1>1. PICK r, f : r = upload[c] /\ f = r.file
  OBVIOUS
<1>2. /\ r.pc = "reply"
      /\ upload' = [upload EXCEPT ![c] = IdleUpload]
      /\ answered' = IF f \in mixed THEN answered ELSE answered \cup {<<f, r.body>>}
      /\ storage' = storage /\ second' = second /\ mixed' = mixed /\ faults' = faults
  BY <1>1 DEF Reply
<1>3. /\ f \in DOMAIN storage /\ r.body \in Bodies /\ r.at = Size[r.body] /\ Open(c, f)
  BY <1>1, <1>2 DEF Inv, Types, UploadOK, Open
<1>4. /\ DOMAIN upload' = Conns /\ upload'[c] = IdleUpload
      /\ \A d \in Conns : d # c => upload'[d] = upload[d]
  BY <1>2 DEF Inv, Types
<1>5. UploadOK(upload'[c], DOMAIN storage')
  BY <1>4 DEF UploadOK, IdleUpload
<1>6. Types'
  <2>1. answered' \subseteq (DOMAIN storage) \X Bodies
    BY <1>2, <1>3 DEF Inv, Types
  <2> QED  BY <1>2, <1>4, <1>5, <2>1 DEF Inv, Types, UploadOK
<1>7. \A d \in Conns : \A g : Open(d, g)' => d # c /\ Open(d, g) /\ upload'[d] = upload[d]
  BY <1>4 DEF Open, IdleUpload
<1>8. LoneWriter'
  BY <1>2, <1>7 DEF Inv, LoneWriter
<1>9. ASSUME NEW p \in answered'
      PROVE  storage'[p[1]] = Whole(p[2]) /\ \A d \in Conns : ~Open(d, p[1])'
  <2>1. CASE p \in answered
    BY <1>2, <1>7, <2>1 DEF Inv, Settled
  <2>2. CASE f \notin mixed /\ p = <<f, r.body>>
    <3>1. /\ storage[f] = Prefix(r.body, Size[r.body])
          /\ \A d \in Conns : Open(d, f) => d = c
      BY <1>1, <1>3, <2>2 DEF Inv, LoneWriter
    <3>2. storage[f] = Whole(r.body)
      BY <3>1 DEF Whole, Prefix
    <3> QED  BY <1>2, <1>7, <2>2, <3>1, <3>2
  <2> QED  BY <1>2, <1>9, <2>1, <2>2
<1> QED  BY <1>6, <1>8, <1>9 DEF Inv, Settled

LEMMA CrashInv == ASSUME Inv, Crash  PROVE Inv'
<1>1. /\ storage' = storage /\ second' = second /\ answered' = answered
      /\ mixed \subseteq mixed' /\ mixed' \subseteq DOMAIN storage
      /\ \A c \in Conns : upload'[c] = IdleUpload
      /\ DOMAIN upload' = Conns /\ faults' \in 0..MaxFaults
  BY BoundAssumption DEF Crash, Fault, Inv, Types
<1>2. UploadOK(IdleUpload, DOMAIN storage')
  BY DEF UploadOK, IdleUpload
<1>3. \A c \in Conns : \A f : ~Open(c, f)'
  BY <1>1 DEF Open, IdleUpload
<1>4. Types'
  BY <1>1, <1>2 DEF Inv, Types
<1> QED  BY <1>1, <1>3, <1>4 DEF Inv, LoneWriter, Settled

LEMMA SameInv ==
    ASSUME Inv, UNCHANGED <<storage, upload, mixed, answered, faults>>,
           second' \in 0..MaxSecond
    PROVE  Inv'
<1>1. Types'
  BY DEF Inv, Types, UploadOK
<1> QED  BY <1>1 DEF Inv, LoneWriter, Settled, Open

LEMMA NextInv == Inv /\ [Next]_vars => Inv'
<1> SUFFICES ASSUME Inv, [Next]_vars PROVE Inv'
  OBVIOUS
<1>1. ASSUME NEW c \in Conns, NEW n \in Names, NEW b \in Bodies,
             UploadRawFile(c, n, b)
      PROVE  Inv'
  <2> DEFINE r == [IdleUpload EXCEPT !.pc = "create", !.file = FileOf(n), !.body = b]
  <2>1. r.pc = "create" /\ r.at = 0 /\ r.body = b
    BY DEF IdleUpload
  <2>2. upload' = [upload EXCEPT ![c] = r]
    BY <1>1 DEF UploadRawFile
  <2> HIDE DEF r
  <2>3. UploadOK(r, DOMAIN storage)
    BY <2>1 DEF UploadOK
  <2> QED  BY <1>1, <2>1, <2>2, <2>3, OneUpload DEF UploadRawFile, Inv, Types
<1>2. ASSUME NEW c \in Conns, CreateFails(c) \/ WriteFails(c)
      PROVE  Inv'
  <2>1. UploadOK(IdleUpload, DOMAIN storage) /\ IdleUpload.pc = "idle"
    BY DEF UploadOK, IdleUpload
  <2>2. /\ upload' = [upload EXCEPT ![c] = IdleUpload]
        /\ storage' = storage /\ second' = second /\ answered' = answered
        /\ faults' = faults \/ Fault
    BY <1>2 DEF CreateFails, WriteFails
  <2>3. faults' \in 0..MaxFaults
    BY <2>2, BoundAssumption DEF Fault, Inv, Types
  <2>4. mixed \subseteq mixed' /\ mixed' \subseteq DOMAIN storage
    BY <1>2 DEF CreateFails, WriteFails, Inv, Types, UploadOK
  <2> QED  BY <2>1, <2>2, <2>3, <2>4, OneUpload
<1>3. CASE Tick
  BY <1>3, SameInv, BoundAssumption DEF Tick, Inv, Types
<1>4. CASE UNCHANGED vars
  BY <1>4, SameInv DEF vars, Inv, Types
<1> QED  BY <1>1, <1>2, <1>3, <1>4, CreateInv, WriteInv, WrittenInv, ReplyInv, CrashInv
            DEF Next, Step

LEMMA Invariant == Spec => []Inv
  BY InitInv, NextInv, PTL DEF Spec

-----------------------------------------------------------------------------
(* Induction, over a set of naturals: WFMin has no operator parameter. *)

\* A set of naturals that is not empty has a least element.
LEMMA LeastElement ==
    ASSUME NEW S, S \subseteq Nat, S # {}
    PROVE  \E n \in S : \A m \in S : n <= m
<1>1. PICK n \in S : \A m \in S : <<m, n>> \notin OpToRel(<, Nat)
  BY NatLessThanWellFounded, WFMin, Zenon
<1>2. \A m \in S : ~(m < n)
  BY <1>1, Zenon DEF OpToRel
<1> QED  BY <1>2

\* A set with 0 and every successor holds every natural.
LEMMA Induction ==
    ASSUME NEW S, 0 \in S, \A n \in Nat : n \in S => n + 1 \in S
    PROVE  Nat \subseteq S
<1> DEFINE T == {n \in Nat : n \notin S}
<1>1. SUFFICES ASSUME T # {} PROVE FALSE
  OBVIOUS
<1>2. PICK n \in T : \A m \in T : n <= m
  BY <1>1, LeastElement
<1>3. n # 0 /\ n - 1 \in Nat /\ n - 1 \notin T
  BY <1>2
<1> QED  BY <1>2, <1>3

\* CHOOSE finds the extreme elements.
LEMMA MinLemma ==
    ASSUME NEW S, S \subseteq Nat, S # {}
    PROVE  Min(S) \in S /\ \A x \in S : Min(S) <= x
  BY LeastElement DEF Min

LEMMA GreatestLemma ==
    ASSUME NEW n \in Nat, NEW S, S \subseteq 0..n, S # {}
    PROVE  Max(S) \in S /\ \A x \in S : Max(S) >= x
<1> DEFINE T == {k \in 0..n : n - k \in S}
<1>1. PICK x \in S : x \in 0..n
  OBVIOUS
<1>2. n - x \in T /\ T \subseteq Nat
  BY <1>1
<1>3. PICK m \in T : \A k \in T : m <= k
  BY <1>2, LeastElement
<1>4. ASSUME NEW y \in S
      PROVE  n - m >= y
  <2>1. y \in 0..n /\ n - y \in T
    BY <1>4
  <2>2. m \in 0..n /\ m <= n - y
    BY <1>3, <2>1
  <2> QED  BY <2>1, <2>2
<1>5. \E z \in S : \A y \in S : z >= y
  BY <1>3, <1>4
<1> QED  BY <1>5 DEF Max

-----------------------------------------------------------------------------
(* Names *)

\* filepath.Base returns a separator or a name without one.
LEMMA BaseLemma ==
    ASSUME NEW C, NEW s \in Seq(C)
    PROVE  Base(s) = Directory \/ Base(s) \in Seq((C \cup {"."}) \ {"/"})
<1> DEFINE D    == (C \cup {"."}) \ {"/"}
           ends == {i \in DOMAIN s : s[i] # "/"}
<1>t. Len(s) \in Nat /\ DOMAIN s = 1..Len(s) /\ \A i \in 1..Len(s) : s[i] \in C
  OBVIOUS
<1>1. CASE s = <<>>
  <2>1. Base(s) = <<".">>
    BY <1>1 DEF Base
  <2> QED  BY <2>1
<1>2. CASE s # <<>> /\ ends = {}
  BY <1>2 DEF Base, Directory
<1>3. CASE s # <<>> /\ ends # {}
  <2> DEFINE n      == Max(ends)
             before == {i \in 1..n : s[i] = "/"} \cup {0}
             m      == Max(before)
  <2>1. n \in ends
    BY <1>t, <1>3, GreatestLemma
  <2>2. n \in 1..Len(s) /\ s[n] # "/"
    BY <1>t, <2>1
  <2>3. Base(s) = SubSeq(s, m + 1, n)
    BY <1>3, Zenon DEF Base
  <2> HIDE DEF n
  <2>4. before \subseteq 0..n /\ before # {}
    BY <2>2
  <2>5. m \in before /\ \A x \in before : m >= x
    <3>1. n \in Nat
      BY <1>t, <2>2
    <3> HIDE DEF before
    <3> QED  BY <2>4, <3>1, GreatestLemma
  <2> HIDE DEF m
  <2>6. m \in 0..n /\ \A i \in (m + 1)..n : s[i] # "/"
    BY <2>2, <2>5
  <2>7. \A i \in (m + 1)..n : s[i] \in D
    BY <1>t, <2>2, <2>6
  <2> HIDE DEF D
  <2>8. SubSeq(s, m + 1, n) \in Seq(D)
    BY <1>t, <2>2, <2>6, <2>7
  <2> QED  BY <2>3, <2>8 DEF D
<1> QED  BY <1>1, <1>2, <1>3

\* TrimSpace leaves characters of s.
LEMMA TrimLemma ==
    ASSUME NEW C, NEW s \in Seq(C)
    PROVE  TrimSpace(s) \in Seq(C)
<1> DEFINE inner == {i \in DOMAIN s : s[i] # Space}
<1>t. Len(s) \in Nat /\ DOMAIN s = 1..Len(s) /\ \A i \in 1..Len(s) : s[i] \in C
  OBVIOUS
<1>1. CASE inner = {}
  BY <1>1 DEF TrimSpace
<1>2. CASE inner # {}
  <2>1. inner \subseteq Nat /\ inner \subseteq 0..Len(s) /\ inner \subseteq 1..Len(s)
    BY <1>t
  <2>2. TrimSpace(s) = SubSeq(s, Min(inner), Max(inner))
    BY <1>2 DEF TrimSpace
  <2> HIDE DEF inner
  <2>3. Min(inner) \in 1..Len(s) /\ Max(inner) \in 1..Len(s)
    BY <1>t, <1>2, <2>1, MinLemma, GreatestLemma
  <2>4. \A i \in Min(inner)..Max(inner) : s[i] \in C
    BY <1>t, <2>3
  <2> QED  BY <2>2, <2>3, <2>4, SubSeqProperties
<1> QED  BY <1>1, <1>2

\* Without spaces at its ends a sequence stays as it is.
LEMMA TrimKeeps ==
    ASSUME NEW C, NEW s \in Seq(C), s # <<>>, s[1] # Space, s[Len(s)] # Space
    PROVE  TrimSpace(s) = s
<1> DEFINE inner == {i \in DOMAIN s : s[i] # Space}
<1>t. /\ Len(s) \in Nat \ {0} /\ DOMAIN s = 1..Len(s)
      /\ \A i \in 1..Len(s) : s[i] \in C
  BY EmptySeq
<1>1. 1 \in inner /\ Len(s) \in inner /\ inner \subseteq 1..Len(s)
  BY <1>t
<1>2. TrimSpace(s) = SubSeq(s, Min(inner), Max(inner))
  BY <1>1 DEF TrimSpace
<1> HIDE DEF inner
<1>3. inner \subseteq Nat /\ inner \subseteq 0..Len(s) /\ inner # {}
  BY <1>t, <1>1
<1>4. /\ Min(inner) \in inner /\ \A x \in inner : Min(inner) <= x
      /\ Max(inner) \in inner /\ \A x \in inner : Max(inner) >= x
  BY <1>t, <1>3, MinLemma, GreatestLemma
<1>5. Min(inner) \in 1..Len(s) /\ Max(inner) \in 1..Len(s)
  BY <1>1, <1>4
<1>6. Min(inner) = 1 /\ Max(inner) = Len(s)
  BY <1>t, <1>1, <1>4, <1>5
<1> QED  BY <1>2, <1>6, SubSeqFull

\* No two dots in a row.
SingleDots(s) == \A i \in 1..(Len(s) - 1) : ~(s[i] = "." /\ s[i + 1] = ".")

\* The next character keeps the dots apart.
LEMMA KeepCharLemma ==
    ASSUME NEW C, NEW t \in Seq(C), SingleDots(t), NEW x \in C
    PROVE  KeepChar(t, x) \in Seq(C) /\ SingleDots(KeepChar(t, x))
<1>t. Len(t) \in Nat /\ DOMAIN t = 1..Len(t) /\ \A i \in 1..Len(t) : t[i] \in C
  OBVIOUS
<1>1. CASE x = "." /\ t # <<>> /\ Last(t) = "."
  <2> DEFINE f == SubSeq(t, 1, Len(t) - 1)
  <2>1. KeepChar(t, x) = f
    BY <1>1 DEF KeepChar, Front
  <2>2. Len(t) > 0
    BY <1>1, EmptySeq
  <2>3. /\ f \in Seq(C) /\ Len(f) = Len(t) - 1
        /\ \A i \in 1..(Len(t) - 1) : f[i] = t[i]
    BY <1>t, <2>2
  <2> HIDE DEF f
  <2> QED  BY <1>t, <2>1, <2>2, <2>3 DEF SingleDots
<1>2. CASE ~(x = "." /\ t # <<>> /\ Last(t) = ".")
  <2> DEFINE a == Append(t, x)
  <2>1. KeepChar(t, x) = a
    BY <1>2, Zenon DEF KeepChar
  <2>2. /\ a \in Seq(C) /\ Len(a) = Len(t) + 1 /\ a[Len(t) + 1] = x
        /\ \A i \in 1..Len(t) : a[i] = t[i]
    BY <1>t
  <2> HIDE DEF a
  <2>3. Len(t) > 0 /\ x = "." => t[Len(t)] # "."
    BY <1>2 DEF Last
  <2>n. Len(t) \in Nat
    OBVIOUS
  <2>4. ASSUME NEW i \in 1..Len(t), a[i] = ".", a[i + 1] = "."
        PROVE  FALSE
    <3>1. CASE i = Len(t)
      BY <1>t, <2>2, <2>3, <2>4, <3>1
    <3>2. CASE i # Len(t)
      <4>1. i \in 1..(Len(t) - 1)
        BY <2>n, <3>2
      <4>2. i \in 1..Len(t) /\ i + 1 \in 1..Len(t)
        BY <1>t, <4>1
      <4> QED  BY <2>2, <2>4, <4>1, <4>2 DEF SingleDots
    <3> QED  BY <3>1, <3>2
  <2> QED  BY <1>t, <2>1, <2>2, <2>4 DEF SingleDots
<1> QED  BY <1>1, <1>2

\* f is the function of DropDotPairs, defined up to n.
Keeps(s, n, f) ==
    f = [i \in 0..n |-> IF i = 0 THEN <<>> ELSE KeepChar(f[i - 1], s[i])]

\* There is such a function for every n.
LEMMA KeepsExists ==
    ASSUME NEW s
    PROVE  \A n \in Nat : \E f : Keeps(s, n, f)
<1> DEFINE S == {n \in Nat : \E f : Keeps(s, n, f)}
<1>1. 0 \in S
  <2>1. Keeps(s, 0, [i \in 0..0 |-> <<>>])
    BY DEF Keeps
  <2> QED  BY <2>1
<1>2. ASSUME NEW n \in Nat, n \in S
      PROVE  n + 1 \in S
  <2>1. PICK f : Keeps(s, n, f)
    BY <1>2
  <2> DEFINE g == [i \in 0..(n + 1) |->
                      IF i = n + 1 THEN KeepChar(f[n], s[n + 1]) ELSE f[i]]
  <2>2. Keeps(s, n + 1, g)
    BY <2>1 DEF Keeps
  <2> HIDE DEF g
  <2> QED  BY <2>2
<1> HIDE DEF S
<1>3. Nat \subseteq S
  BY <1>1, <1>2, Induction
<1> QED  BY <1>3 DEF S

\* The one DropDotPairs chooses is one.
LEMMA DropIsKeep ==
    ASSUME NEW C, NEW s \in Seq(C)
    PROVE  \E f : Keeps(s, Len(s), f) /\ DropDotPairs(s) = f[Len(s)]
<1> DEFINE k == CHOOSE f : Keeps(s, Len(s), f)
<1>1. DropDotPairs(s) = k[Len(s)]
  BY DEF DropDotPairs, Keeps
<1>2. \E f : Keeps(s, Len(s), f)
  <2>1. Len(s) \in Nat
    OBVIOUS
  <2> QED  BY <2>1, KeepsExists
<1>3. Keeps(s, Len(s), k)
  BY <1>2
<1> QED  BY <1>1, <1>3

\* DropDotPairs leaves characters of s, and no two dots in a row.
LEMMA DropLemma ==
    ASSUME NEW C, NEW s \in Seq(C)
    PROVE  DropDotPairs(s) \in Seq(C) /\ SingleDots(DropDotPairs(s))
<1>1. PICK f : Keeps(s, Len(s), f) /\ DropDotPairs(s) = f[Len(s)]
  BY DropIsKeep
<1>t. Len(s) \in Nat /\ \A i \in 1..Len(s) : s[i] \in C
  OBVIOUS
<1>2. f[0] = <<>> /\ \A i \in 1..Len(s) : f[i] = KeepChar(f[i - 1], s[i])
  BY <1>t, <1>1 DEF Keeps
<1> DEFINE S == {n \in Nat : n <= Len(s) => f[n] \in Seq(C) /\ SingleDots(f[n])}
<1>3. 0 \in S
  <2>1. Len(<<>>) = 0 /\ <<>> \in Seq(C)
    OBVIOUS
  <2>2. SingleDots(<<>>)
    BY <2>1 DEF SingleDots
  <2> QED  BY <1>2, <2>1, <2>2
<1>4. ASSUME NEW n \in Nat, n \in S
      PROVE  n + 1 \in S
  <2> SUFFICES ASSUME n + 1 <= Len(s)
               PROVE  f[n + 1] \in Seq(C) /\ SingleDots(f[n + 1])
    BY <1>4
  <2>1. f[n] \in Seq(C) /\ SingleDots(f[n])
    BY <1>t, <1>4
  <2>2. f[n + 1] = KeepChar(f[n], s[n + 1]) /\ s[n + 1] \in C
    BY <1>t, <1>2
  <2> QED  BY <2>1, <2>2, KeepCharLemma
<1> HIDE DEF S
<1>5. Nat \subseteq S
  BY <1>3, <1>4, Induction
<1>6. Len(s) \in S
  BY <1>t, <1>5
<1> QED  BY <1>1, <1>t, <1>6 DEF S

\* Single dots stay.
LEMMA DropKeeps ==
    ASSUME NEW C, NEW s \in Seq(C), SingleDots(s)
    PROVE  DropDotPairs(s) = s
<1>1. PICK f : Keeps(s, Len(s), f) /\ DropDotPairs(s) = f[Len(s)]
  BY DropIsKeep
<1>t. Len(s) \in Nat /\ \A i \in 1..Len(s) : s[i] \in C
  OBVIOUS
<1>2. f[0] = <<>> /\ \A i \in 1..Len(s) : f[i] = KeepChar(f[i - 1], s[i])
  BY <1>t, <1>1 DEF Keeps
<1> DEFINE S == {n \in Nat : n <= Len(s) => f[n] = SubSeq(s, 1, n)}
<1>3. 0 \in S
  <2>1. SubSeq(s, 1, 0) = <<>>
    BY SubSeqEmpty
  <2> QED  BY <1>2, <2>1
<1>4. ASSUME NEW n \in Nat, n \in S
      PROVE  n + 1 \in S
  <2> SUFFICES ASSUME n + 1 <= Len(s)
               PROVE  f[n + 1] = SubSeq(s, 1, n + 1)
    BY <1>4
  <2> DEFINE t == SubSeq(s, 1, n)
  <2>1. f[n] = t
    BY <1>t, <1>4
  <2>2. f[n + 1] = KeepChar(t, s[n + 1])
    <3>1. n + 1 \in 1..Len(s) /\ (n + 1) - 1 = n
      BY <1>t
    <3> HIDE DEF t
    <3> QED  BY <1>2, <2>1, <3>1
  <2>3. t \in Seq(C) /\ Len(t) = n /\ \A i \in 1..n : t[i] = s[i]
    BY <1>t
  <2>4. ~(s[n + 1] = "." /\ t # <<>> /\ Last(t) = ".")
    <3>1. t # <<>> => n > 0 /\ Last(t) = s[n]
      BY <2>3, EmptySeq DEF Last
    <3>2. n > 0 => ~(s[n] = "." /\ s[n + 1] = ".")
      BY <1>t DEF SingleDots
    <3> QED  BY <3>1, <3>2
  <2>5. f[n + 1] = Append(t, s[n + 1])
    BY <2>2, <2>4, Zenon DEF KeepChar
  <2>6. Append(t, s[n + 1]) = SubSeq(s, 1, n + 1)
    BY <1>t, <2>3
  <2> QED  BY <2>5, <2>6
<1> HIDE DEF S
<1>5. Nat \subseteq S
  BY <1>3, <1>4, Induction
<1>6. Len(s) \in S
  BY <1>t, <1>5
<1> QED  BY <1>1, <1>t, <1>6, SubSeqFull DEF S

\* What sanitizeFilename returns is empty, the separator, or a plain name.
LEMMA SanitizeLemma ==
    ASSUME NEW C, NEW s \in Seq(C)
    PROVE  \/ sanitizeFilename(s) \in {<<>>, Directory}
           \/ PlainName(sanitizeFilename(s))
<1> DEFINE D == (C \cup {"."}) \ {"/"}
           t == DropDotPairs(TrimSpace(Base(s)))
           u == IF Len(t) > MaxName THEN SubSeq(t, 1, MaxName) ELSE t
<1>1. sanitizeFilename(s) = IF u = <<".">> THEN <<>> ELSE u
  BY DEF sanitizeFilename
<1>2. CASE Base(s) = Directory
  <2>1. /\ Directory \in Seq({"/"}) /\ Directory # <<>> /\ Len(Directory) = 1
        /\ Directory[1] = "/"
    BY DEF Directory
  <2>2. TrimSpace(Directory) = Directory
    BY <2>1, TrimKeeps DEF Space
  <2>3. SingleDots(Directory)
    BY <2>1 DEF SingleDots
  <2>4. DropDotPairs(Directory) = Directory
    BY <2>1, <2>3, DropKeeps
  <2>5. t = Directory
    BY <1>2, <2>2, <2>4
  <2> HIDE DEF t
  <2>6. u = Directory
    <3>1. Len(t) = 1 /\ ~(Len(t) > MaxName)
      BY <2>1, <2>5, NameAssumption
    <3> QED  BY <2>5, <3>1
  <2> HIDE DEF u
  <2>7. Directory # <<".">>
    BY DEF Directory
  <2> QED  BY <1>1, <2>6, <2>7
<1>3. CASE Base(s) \in Seq(D)
  <2>1. t \in Seq(D) /\ SingleDots(t)
    BY <1>3, TrimLemma, DropLemma
  <2> HIDE DEF t, D
  <2>2. Len(t) \in Nat /\ \A i \in 1..Len(t) : t[i] \in D
    BY <2>1
  <2>3. u \in Seq(D) /\ Len(u) <= MaxName /\ SingleDots(u)
    <3>1. CASE Len(t) > MaxName
      <4> DEFINE v == SubSeq(t, 1, MaxName)
      <4>1. /\ v \in Seq(D) /\ Len(v) = MaxName
            /\ \A i \in 1..MaxName : v[i] = t[i]
        BY <2>1, <2>2, <3>1, NameAssumption
      <4>2. u = v
        BY <3>1
      <4> HIDE DEF v, u
      <4> QED  BY <2>1, <2>2, <3>1, <4>1, <4>2, NameAssumption DEF SingleDots
    <3>2. CASE ~(Len(t) > MaxName)
      BY <2>1, <2>2, <3>2, NameAssumption
    <3> QED  BY <3>1, <3>2
  <2>4. "/" \notin D
    BY DEF D
  <2> HIDE DEF u
  <2>5. "/" \notin ToSet(u)
    BY <2>3, <2>4 DEF ToSet
  <2> QED  BY <1>1, <2>3, <2>5 DEF PlainName, SingleDots
<1> QED  BY <1>2, <1>3, BaseLemma

\* An upload gets a plain name, or the directory, which os.Create refuses.
LEMMA FileOfLemma ==
    ASSUME NEW n \in Names, second \in 0..MaxSecond
    PROVE  FileOf(n) = Directory \/ PlainName(FileOf(n))
<1> DEFINE f == sanitizeFilename(n)
           r == <<"raw_", Timestamp[second]>>
<1>1. f \in {<<>>, Directory} \/ PlainName(f)
  BY NameAssumption, SanitizeLemma
<1>2. FileOf(n) = IF f = <<>> THEN r ELSE f
  BY DEF FileOf
<1>3. PlainName(r)
  <2>1. Timestamp[second] \notin {"/", "."}
    BY TimestampAssumption
  <2>2. Len(r) = 2 /\ r[1] = "raw_" /\ r[2] = Timestamp[second]
    OBVIOUS
  <2>3. r \notin {<<>>, <<".">>} /\ ToSet(r) = {"raw_", Timestamp[second]}
    BY <2>2 DEF ToSet
  <2> HIDE DEF r
  <2> QED  BY <2>1, <2>2, <2>3, NameAssumption DEF PlainName
<1> HIDE DEF f, r
<1> QED  BY <1>1, <1>2, <1>3

\* An upload that is about to create its file has a plain name or none.
NameInv ==
    /\ PlainFiles
    /\ \A c \in Conns : upload[c].pc = "create" =>
          upload[c].file = Directory \/ PlainName(upload[c].file)

LEMMA NextName == Inv /\ NameInv /\ [Next]_vars => NameInv'
<1> SUFFICES ASSUME Inv, NameInv, [Next]_vars PROVE NameInv'
  OBVIOUS
<1>1. DOMAIN upload = Conns /\ second \in 0..MaxSecond
  BY DEF Inv, Types
<1>2. ASSUME NEW c \in Conns, NEW n \in Names, NEW b \in Bodies,
             UploadRawFile(c, n, b)
      PROVE  NameInv'
  <2> DEFINE r == [IdleUpload EXCEPT !.pc = "create", !.file = FileOf(n), !.body = b]
  <2>1. r.file = FileOf(n)
    BY DEF IdleUpload
  <2>2. upload' = [upload EXCEPT ![c] = r] /\ storage' = storage
    BY <1>2 DEF UploadRawFile
  <2> HIDE DEF r
  <2>3. FileOf(n) = Directory \/ PlainName(FileOf(n))
    BY <1>1, FileOfLemma
  <2> QED  BY <1>1, <2>1, <2>2, <2>3 DEF NameInv, PlainFiles
<1>3. ASSUME NEW c \in Conns, Create(c)
      PROVE  NameInv'
  <2> DEFINE f == upload[c].file
  <2>1. PlainName(f) /\ DOMAIN storage' = DOMAIN storage \cup {f}
    BY <1>3, CreatedLemma DEF Create, NameInv
  <2>2. upload' = [upload EXCEPT ![c].pc = "write"]
    BY <1>3 DEF Create
  <2> QED  BY <1>1, <2>1, <2>2 DEF NameInv, PlainFiles
<1>4. ASSUME NEW c \in Conns, CreateFails(c) \/ WriteFails(c) \/ Reply(c)
      PROVE  NameInv'
  <2>1. upload' = [upload EXCEPT ![c] = IdleUpload] /\ storage' = storage
    BY <1>4 DEF CreateFails, WriteFails, Reply
  <2> QED  BY <1>1, <2>1 DEF NameInv, PlainFiles, IdleUpload
<1>5. ASSUME NEW c \in Conns, Write(c)
      PROVE  NameInv'
  <2>1. upload' = [upload EXCEPT ![c].at = @ + 1] /\ DOMAIN storage' = DOMAIN storage
    BY <1>5 DEF Write
  <2> QED  BY <1>1, <2>1 DEF NameInv, PlainFiles
<1>6. ASSUME NEW c \in Conns, Written(c)
      PROVE  NameInv'
  <2>1. upload' = [upload EXCEPT ![c].pc = "reply"] /\ storage' = storage
    BY <1>6 DEF Written
  <2> QED  BY <1>1, <2>1 DEF NameInv, PlainFiles
<1>7. CASE Crash
  BY <1>7 DEF Crash, NameInv, PlainFiles, IdleUpload
<1>8. CASE Tick \/ UNCHANGED vars
  BY <1>8 DEF Tick, vars, NameInv, PlainFiles
<1> QED  BY <1>2, <1>3, <1>4, <1>5, <1>6, <1>7, <1>8 DEF Next, Step

-----------------------------------------------------------------------------
(* Theorems *)

\* Files are made of chunks of uploads and holes, and an upload past os.Create
\* has a file and is within its body.
THEOREM FilesTyped == Spec => []TypeOK
<1>1. Inv => TypeOK
  BY DEF Inv, Types, UploadOK, TypeOK
<1> QED  BY <1>1, Invariant, PTL

\* An upload answered ok that met no other of its name, and followed no failed
\* one, is the whole content of its file until the file is created again.
THEOREM AnsweredFilesKept == Spec => []AnsweredKept
<1>1. Inv => AnsweredKept
  BY DEF Inv, Settled, AnsweredKept
<1> QED  BY <1>1, Invariant, PTL

\* Every file has a plain name: no client gets a file outside the storage
\* directory, whatever name it sends and however long it is.
THEOREM FilesPlain == Spec => []PlainFiles
<1>1. Init => NameInv
  BY DEF Init, NameInv, PlainFiles, IdleUpload
<1>2. NameInv => PlainFiles
  BY DEF NameInv
<1> QED  BY <1>1, <1>2, NextName, Invariant, PTL DEF Spec

\* filepath.Base leaves a name without separators as it is.
LEMMA BaseKeeps ==
    ASSUME NEW C, NEW s \in Seq(C), s # <<>>, \A i \in 1..Len(s) : s[i] # "/"
    PROVE  Base(s) = s
<1> DEFINE ends   == {i \in DOMAIN s : s[i] # "/"}
           n      == Max(ends)
           before == {i \in 1..n : s[i] = "/"} \cup {0}
           m      == Max(before)
<1>t. Len(s) \in Nat \ {0} /\ DOMAIN s = 1..Len(s)
  BY EmptySeq
<1>1. ends = 1..Len(s) /\ ends # {}
  BY <1>t
<1>2. Base(s) = SubSeq(s, m + 1, n)
  BY <1>1, Zenon DEF Base
<1>3. n = Len(s)
  <2> HIDE DEF ends
  <2>1. n \in ends /\ \A x \in ends : n >= x
    <3>1. ends \subseteq 0..Len(s)
      BY <1>1
    <3> QED  BY <1>t, <1>1, <3>1, GreatestLemma
  <2>2. n \in 1..Len(s) /\ n >= Len(s)
    BY <1>t, <1>1, <2>1
  <2>3. Len(s) \in Int
    BY <1>t
  <2> HIDE DEF n
  <2> QED  BY <2>2, <2>3
<1> HIDE DEF n
<1>4. before = {0}
  BY <1>t, <1>3
<1>5. m = 0
  BY <1>4, GreatestLemma
<1> HIDE DEF m
<1>6. m + 1 = 1
  BY <1>5
<1> QED  BY <1>2, <1>3, <1>6, SubSeqFull

\* A plain name without spaces at its ends is the name of the file: what
\* sanitizeFilename guards against is all that it changes.
THEOREM PlainNamesStay ==
    ASSUME NEW C, NEW s \in Seq(C), PlainName(s), s[1] # Space, s[Len(s)] # Space
    PROVE  sanitizeFilename(s) = s
<1>1. s # <<>> /\ s # <<".">> /\ ~(Len(s) > MaxName) /\ SingleDots(s)
  BY NameAssumption DEF PlainName, SingleDots
<1>2. \A i \in 1..Len(s) : s[i] # "/"
  BY DEF PlainName, ToSet
<1>3. Base(s) = s
  BY <1>1, <1>2, BaseKeeps
<1>4. TrimSpace(s) = s
  BY <1>1, TrimKeeps
<1>5. DropDotPairs(s) = s
  BY <1>1, DropKeeps
<1> QED  BY <1>1, <1>3, <1>4, <1>5 DEF sanitizeFilename
=============================================================================
