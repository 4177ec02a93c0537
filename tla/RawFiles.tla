------------------------------ MODULE RawFiles ------------------------------
(***************************************************************************)
(* POST /internal/raw-files: an upload is written to a file whose name the *)
(* client chooses (internal/handler/raw_files.go).  By the time the        *)
(* handler opens the file it has the whole upload (ParseMultipartForm), so *)
(* only the file system can fail from there on.                            *)
(*                                                                         *)
(* A body is a sequence of chunks, each written by one write at the offset *)
(* of its own file descriptor; a cell of a file is the body that was last  *)
(* written there, or None in a hole.  A name is a sequence of characters.  *)
(***************************************************************************)
EXTENDS Integers, SequencesExt, FiniteSetsExt, TLC

CONSTANTS
    Conns,     \* goroutines serving POST /internal/raw-files
    Bodies,    \* contents of uploads
    Size,      \* number of chunks of a body
    Names,     \* file names clients send (ParseMultipartForm takes their Base too)
    MaxName,   \* 200 in the code
    Timestamp, \* what time.Format makes of each second, one character here
    MaxSecond, \* bound on the clock
    MaxFaults, \* bound on the number of faults in a behaviour
    None       \* no body

ASSUME BodyAssumption == Size \in [Bodies -> Nat] /\ None \notin Bodies
ASSUME NameAssumption ==
    /\ MaxName \in Nat /\ MaxName >= 2
    /\ \A n \in Names : n \in Seq(ToSet(n))
ASSUME TimestampAssumption ==
    \A s \in 0..MaxSecond : Timestamp[s] \notin {"/", "."}
ASSUME BoundAssumption == MaxFaults \in Nat /\ MaxSecond \in Nat

VARIABLES
    storage,  \* content of each file of StoragePath
    upload,   \* state of each goroutine
    second,   \* the clock, in seconds
    mixed,    \* files with two writers, or a failed one, since a lone writer
              \* created them (history)
    answered, \* files whose upload was answered ok, with its body, as long as
              \* no other upload created the file again (history)
    faults    \* number of faults so far

vars == <<storage, upload, second, mixed, answered, faults>>

IdleUpload == [pc |-> "idle", file |-> <<>>, body |-> None, at |-> 0]

Init ==
    /\ storage = [f \in {} |-> <<>>]
    /\ upload = [c \in Conns |-> IdleUpload]
    /\ second = 0
    /\ mixed = {}
    /\ answered = {}
    /\ faults = 0

Fault == faults < MaxFaults /\ faults' = faults + 1

-----------------------------------------------------------------------------
(* sanitizeFilename *)

\* filepath.Base: what follows the last separator, trailing ones left out.
Base(s) ==
    LET ends   == {i \in DOMAIN s : s[i] # "/"}
        before == {i \in 1..Max(ends) : s[i] = "/"} \cup {0}
    IN  IF s = <<>> THEN <<".">>
        ELSE IF ends = {} THEN <<"/">>
        ELSE SubSeq(s, Max(before) + 1, Max(ends))

\* Any character of which unicode.IsSpace holds.
Space == "space"

TrimSpace(s) ==
    LET inner == {i \in DOMAIN s : s[i] # Space}
    IN  IF inner = {} THEN <<>> ELSE SubSeq(s, Min(inner), Max(inner))

\* Variant: strings.Replace of the first pair only.
DropFirstPair(s) ==
    LET pairs == {i \in 1..(Len(s) - 1) : s[i] = "." /\ s[i + 1] = "."}
    IN  IF pairs = {} THEN s
        ELSE SubSeq(s, 1, Min(pairs) - 1) \o SubSeq(s, Min(pairs) + 2, Len(s))

\* The characters kept so far and the next one: a second dot takes the first
\* with it.
KeepChar(kept, char) ==
    IF char = "." /\ kept # <<>> /\ Last(kept) = "."
    THEN Front(kept) ELSE Append(kept, char)

\* strings.ReplaceAll(s, "..", ""): a run of dots keeps one if it is odd.
DropDotPairs(s) ==
    LET kept[i \in 0..Len(s)] ==
            IF i = 0 THEN <<>> ELSE KeepChar(kept[i - 1], s[i])
    IN  kept[Len(s)]

sanitizeFilename(s) ==
    LET t == DropDotPairs(TrimSpace(Base(s)))
        u == IF Len(t) > MaxName THEN SubSeq(t, 1, MaxName) ELSE t
    IN  IF u = <<".">> THEN <<>> ELSE u

FileOf(name) ==
    LET file == sanitizeFilename(name)
    IN  IF file = <<>> THEN <<"raw_", Timestamp[second]>> ELSE file

-----------------------------------------------------------------------------
(* POST /internal/raw-files *)

UploadRawFile(c, name, body) ==
    /\ upload[c].pc = "idle"
    /\ upload' = [upload EXCEPT ![c] =
            [IdleUpload EXCEPT !.pc = "create", !.file = FileOf(name),
                               !.body = body]]
    /\ UNCHANGED <<storage, second, mixed, answered, faults>>

\* Upload c has file f open.
Open(c, f) == upload[c].pc \in {"write", "reply"} /\ upload[c].file = f

\* Variant: os.OpenFile without O_TRUNC.
Reopened(f) == IF f \in DOMAIN storage THEN storage ELSE f :> <<>> @@ storage

\* os.Create truncates a file that exists, whoever writes it.
Created(f) ==
    [g \in DOMAIN storage \cup {f} |-> IF g = f THEN <<>> ELSE storage[g]]

\* The path of the name "/" is the storage directory itself.
Directory == <<"/">>

Create(c) ==
    LET f == upload[c].file
    IN  /\ upload[c].pc = "create" /\ f # Directory
        /\ storage' = Created(f)
        /\ upload' = [upload EXCEPT ![c].pc = "write"]
        /\ mixed' = IF \E d \in Conns : Open(d, f) THEN mixed \cup {f}
                                                   ELSE mixed \ {f}
        /\ answered' = {p \in answered : p[1] # f}
        /\ UNCHANGED <<second, faults>>

\* MkdirAll or Create fails: the request answers 500.
CreateFails(c) ==
    /\ upload[c].pc = "create"
    /\ IF upload[c].file = Directory THEN UNCHANGED faults ELSE Fault
    /\ upload' = [upload EXCEPT ![c] = IdleUpload]
    /\ UNCHANGED <<storage, second, mixed, answered>>

\* A write of body at cell i, past the end of the file or not.
WriteAt(content, i, body) ==
    [j \in 1..Max({i, Len(content)}) |->
        IF j = i THEN body ELSE IF j \in DOMAIN content THEN content[j] ELSE None]

\* Variant: one chunk too many.
MorePast(r) == r.at <= Size[r.body]

\* ReadFrom has chunks left to write.
More(r) == r.at < Size[r.body]

\* ReadFrom writes the next chunk.
Write(c) ==
    LET r == upload[c]
    IN  /\ r.pc = "write" /\ More(r)
        /\ storage' = [storage EXCEPT ![r.file] = WriteAt(@, r.at + 1, r.body)]
        /\ upload' = [upload EXCEPT ![c].at = @ + 1]
        /\ UNCHANGED <<second, mixed, answered, faults>>

\* ReadFrom is at the end of the upload.
Written(c) ==
    /\ upload[c].pc = "write" /\ ~More(upload[c])
    /\ upload' = [upload EXCEPT ![c].pc = "reply"]
    /\ UNCHANGED <<storage, second, mixed, answered, faults>>

\* A write fails: the request answers 500, and what was written stays.
WriteFails(c) ==
    /\ upload[c].pc = "write"
    /\ Fault
    /\ mixed' = mixed \cup {upload[c].file}
    /\ upload' = [upload EXCEPT ![c] = IdleUpload]
    /\ UNCHANGED <<storage, second, answered>>

\* The response "ok", received or not; the file is closed.
Reply(c) ==
    LET r == upload[c]
    IN  /\ r.pc = "reply"
        /\ upload' = [upload EXCEPT ![c] = IdleUpload]
        /\ answered' = IF r.file \in mixed THEN answered
                       ELSE answered \cup {<<r.file, r.body>>}
        /\ UNCHANGED <<storage, second, mixed, faults>>

\* The gateway stops and starts again: its files stay as they are.
Crash ==
    /\ Fault
    /\ mixed' = mixed \cup {f \in DOMAIN storage : \E c \in Conns : Open(c, f)}
    /\ upload' = [c \in Conns |-> IdleUpload]
    /\ UNCHANGED <<storage, second, answered>>

Tick ==
    /\ second < MaxSecond
    /\ second' = second + 1
    /\ UNCHANGED <<storage, upload, mixed, answered, faults>>

Step(c) ==
    Create(c) \/ CreateFails(c) \/ Write(c) \/ Written(c) \/ WriteFails(c) \/ Reply(c)

Next ==
    \/ \E c \in Conns, n \in Names, b \in Bodies : UploadRawFile(c, n, b)
    \/ \E c \in Conns : Step(c)
    \/ Crash
    \/ Tick

Spec == Init /\ [][Next]_vars

-----------------------------------------------------------------------------
(* Properties *)

\* Files are made of chunks of uploads and of holes, and an upload that is
\* past os.Create has a file and is within its body.
TypeOK ==
    /\ \A f \in DOMAIN storage : storage[f] \in Seq(Bodies \cup {None})
    /\ second \in 0..MaxSecond
    /\ mixed \subseteq DOMAIN storage
    /\ answered \subseteq (DOMAIN storage) \X Bodies
    /\ faults \in 0..MaxFaults
    /\ \A c \in Conns :
          /\ upload[c].pc \in {"idle", "create", "write", "reply"}
          /\ upload[c].pc # "idle" => upload[c].body \in Bodies
          /\ upload[c].pc \in {"write", "reply"} =>
                /\ upload[c].file \in DOMAIN storage
                /\ upload[c].at <= Size[upload[c].body]

Whole(body) == [i \in 1..Size[body] |-> body]

\* A file whose upload was answered ok holds this upload and nothing else, a
\* longer file of the same name included, until an upload creates the file
\* again.  The exceptions are uploads that overlapped another of the same
\* name, and those of a name whose last lone upload failed.
AnsweredKept == \A p \in answered : storage[p[1]] = Whole(p[2])

PlainName(f) ==
    /\ f \notin {<<>>, <<".">>} /\ Len(f) <= MaxName
    /\ "/" \notin ToSet(f)
    /\ \A i \in 1..(Len(f) - 1) : ~(f[i] = "." /\ f[i + 1] = ".")

\* Every file is a file of the storage directory: no name has a separator or
\* two dots in a row, is empty or a dot, or is longer than MaxName.
PlainFiles == \A f \in DOMAIN storage : PlainName(f)
=============================================================================
