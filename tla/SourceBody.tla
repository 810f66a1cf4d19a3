------------------------------- MODULE SourceBody -------------------------------
(***************************************************************************)
(* The body of a selected source, from the NAS to the evidence kept of it: *)
(* KnowledgeIngestionPipeline._parse_and_retain over the Synology reader   *)
(* (stat, open_stream), SpoolManager.materialize, MinerUClient.parse and   *)
(* the selection of evidence, after GlobalAdmissionController has let the  *)
(* stage begin.  Any number of calls share the NAS, where files are        *)
(* replaced meanwhile, the disk, and the quota of the spool; the process   *)
(* dies and comes back with an empty quota, and sweep_abandoned removes    *)
(* old directories.                                                        *)
(*                                                                         *)
(* A version of a file stands for its mtime, and a body for the versions   *)
(* its chunks are of.  Ages are not kept: a sweep may find any directory   *)
(* old.  What the service answers to one upload is any of Document; the    *)
(* other calls of MinerUClient are tried several times, which changes      *)
(* nothing here, and are told as one, but the archive is downloaded by     *)
(* chunks, for it takes room on the disk.                                  *)
(*                                                                         *)
(* An operator whose name ends in _Unchecked or the like is a faulty       *)
(* variant of the one below it; no action uses it.                         *)
(***************************************************************************)
EXTENDS EvidenceRetention, FiniteSetsExt

CONSTANTS
  Call,
  File,
  Size,         \* Size[s][v]: the size of version v of s, in chunks
  Timed,        \* files whose modified_at the NAS reports
  Document,     \* content lists MinerU may return
  MaxObject, MaxTotal, MaxActive,  \* SpoolPolicy
  MaxArchive,   \* MinerUSettings.max_archive_bytes
  GrowthAt, PauseAt,               \* GlobalAdmissionPolicy, in hundredths
  Other,        \* bytes under the derived root outside the spool
  Target, HardCap,                 \* of derived data
  MaxMade,      \* bound: reservations that are explored
  None

ASSUME BodyAssumption ==
  /\ \A s \in File : Size[s] \in Seq(Nat) /\ Size[s] # <<>>
  /\ Timed \subseteq File
  /\ MaxObject \in Nat \ {0} /\ MaxTotal \in Nat /\ MaxObject <= MaxTotal
  /\ MaxActive \in Nat \ {0} /\ MaxArchive \in Nat \ {0}
  /\ GrowthAt <= PauseAt /\ PauseAt <= 100
  /\ {Other, Target, HardCap} \subseteq Nat /\ Target <= HardCap
  /\ \A d \in Document : d \in Seq(ContentRow)

VARIABLES
  remote,    \* remote[s]: the version that is there now
  disk,      \* disk[id]: the directory of reservation id, where there is one
  reserved,  \* the quota: what each reservation expects, in memory
  made,      \* reservations made so far
  call,      \* call[c]
  strays     \* history: directories whose call died, or failed to make or remove them

bodyVars == <<remote, disk, reserved, made, call, strays>>

At == {"idle", "stat", "reserve", "open", "download", "stream", "parse",
       "fetch", "archive", "retain", "remove", "release"}
MakeCall(at, file, version) ==
  [at |-> at, file |-> file, version |-> version, id |-> 0, opened |-> 0,
   body |-> <<>>, document |-> None, touched |-> FALSE]
NoCall == MakeCall("idle", None, 0)

(* body and archive are what is on disk of the source and of the parser's  *)
(* result; manifest, that the directory can be recognised by a sweep.      *)
MakeDirectory(manifest) == [body |-> 0, archive |-> 0, manifest |-> manifest]

BodyInit ==
  /\ remote = [s \in File |-> 1]
  /\ disk = << >> /\ reserved = << >> /\ made = 0
  /\ call = [c \in Call |-> NoCall]
  /\ strays = {}
-----------------------------------------------------------------------------
With(f, x, value) == [y \in (DOMAIN f) \cup {x} |-> IF y = x THEN value ELSE f[y]]
Without(f, x) == [y \in (DOMAIN f) \ {x} |-> f[y]]

OnDisk == MapThenSumSet(LAMBDA id : disk[id].body + disk[id].archive, DOMAIN disk)
Promised == MapThenSumSet(LAMBDA id : reserved[id], DOMAIN reserved)
Derived == Other + OnDisk

(* GlobalAdmissionController.decide of a snapshot whose spool is the       *)
(* larger of the two counts; the file system and the memory may press too. *)
Decide(pressure) ==
  LET spool == IF OnDisk > Promised THEN OnDisk ELSE Promised IN
    IF spool >= MaxTotal \/ Derived >= HardCap \/ pressure = "stop" THEN "hard_stop"
    ELSE IF 100 * spool >= PauseAt * MaxTotal \/ Derived >= Target \/ pressure = "alert"
    THEN "pause_body"
    ELSE IF 100 * spool >= GrowthAt * MaxTotal THEN "stop_growth" ELSE "allow"
BodyAllowed == Decide("none") \in {"allow", "stop_growth"}

Moves(c, at) == call' = [call EXCEPT ![c].at = at]
Ends(c) == call' = [call EXCEPT ![c] = NoCall]

(* Out of the context manager, whatever the reason; all that matters now   *)
(* is which reservation it was.                                            *)
Leaves(c) ==
  call' = [call EXCEPT ![c] = [NoCall EXCEPT !.at = "remove", !.id = call[c].id]]

(* The directory that the call works in may have been swept.               *)
There(c) == call[c].id \in DOMAIN disk
-----------------------------------------------------------------------------
(* External: a file is replaced.                                           *)
Replace(s) ==
  /\ remote[s] < Len(Size[s])
  /\ remote' = [remote EXCEPT ![s] = @ + 1]
  /\ call' = [c \in Call |->
       [call[c] EXCEPT !.touched =
          @ \/ (call[c].file = s /\ call[c].at \in {"download", "stream"})]]
  /\ UNCHANGED <<disk, reserved, made, strays>>

BeginBody(c, s) ==
  /\ call[c].at = "idle"
  /\ BodyAllowed
  /\ call' = [call EXCEPT ![c] = MakeCall("stat", s, 0)]
  /\ UNCHANGED <<remote, disk, reserved, made, strays>>

(* SynologyFileStationReader.stat; an empty file is refused.               *)
Stat(c) ==
  /\ call[c].at = "stat"
  /\ LET s == call[c].file IN
     \/ Ends(c)
     \/ /\ Size[s][remote[s]] > 0
        /\ call' = [call EXCEPT ![c].at = "reserve", ![c].version = remote[s]]
  /\ UNCHANGED <<remote, disk, reserved, made, strays>>

Expected(c) == Size[call[c].file][call[c].version]

(* SpoolManager._reserve.                                                  *)
Room_Unprojected == Derived < HardCap /\ Derived <= Target
Room == Derived < HardCap /\ Derived + MaxObject <= Target
Fits(size) ==
  /\ size <= MaxObject /\ Room
  /\ Cardinality(DOMAIN reserved) < MaxActive
  /\ Promised + size <= MaxTotal

ReserveRefused(c) ==
  /\ call[c].at = "reserve"
  /\ Ends(c)
  /\ UNCHANGED <<remote, disk, reserved, made, strays>>

Reserve(c) ==
  /\ call[c].at = "reserve"
  /\ Fits(Expected(c)) /\ made < MaxMade
  /\ made' = made + 1
  /\ disk' = With(disk, made', MakeDirectory(TRUE))
  /\ reserved' = With(reserved, made', Expected(c))
  /\ call' = [call EXCEPT ![c].at = "open", ![c].id = made']
  /\ UNCHANGED <<remote, strays>>

(* The manifest cannot be written: what was made of the directory stays.   *)
ReserveBreaks(c) ==
  /\ call[c].at = "reserve"
  /\ Fits(Expected(c)) /\ made < MaxMade
  /\ made' = made + 1
  /\ \E manifest \in BOOLEAN : disk' = With(disk, made', MakeDirectory(manifest))
  /\ strays' = strays \cup {made'}
  /\ Ends(c)
  /\ UNCHANGED <<remote, reserved>>

(* The file is created, and the reader asks for size and mtime once more.  *)
Unchanged_Unchecked(c) == TRUE
Unchanged(c) == call[c].file \in Timed => remote[call[c].file] = call[c].version

Open(c) ==
  /\ call[c].at = "open"
  /\ \/ There(c) /\ Unchanged(c) /\ Moves(c, "download")
     \/ Leaves(c)
  /\ UNCHANGED <<remote, disk, reserved, made, strays>>

(* The length that the response declares, if it does, is the expected one. *)
Download(c) ==
  /\ call[c].at = "download"
  /\ \/ call' = [call EXCEPT ![c].at = "stream", ![c].opened = remote[call[c].file]]
     \/ Leaves(c)
  /\ UNCHANGED <<remote, disk, reserved, made, strays>>

(* _write_stream: a chunk is of any version since the response began.      *)
Chunk(c) ==
  LET k == call[c] IN
  /\ k.at = "stream" /\ Len(k.body) < Size[k.file][k.opened]
  /\ IF Len(k.body) >= Expected(c)
     THEN Leaves(c) /\ UNCHANGED disk
     ELSE /\ \E v \in k.opened..remote[k.file] :
               call' = [call EXCEPT ![c].body = Append(@, v)]
          /\ disk' = IF There(c) THEN [disk EXCEPT ![k.id].body = @ + 1] ELSE disk
  /\ UNCHANGED <<remote, reserved, made, strays>>

(* The stream ends, or breaks; parse begins if the file is there.          *)
EndOfStream(c) ==
  LET k == call[c] IN
  /\ k.at = "stream"
  /\ \/ /\ Len(k.body) = Size[k.file][k.opened] /\ Len(k.body) = Expected(c)
        /\ There(c) /\ call' = [call EXCEPT ![c].at = "parse", ![c].opened = 0]
     \/ Leaves(c)
  /\ UNCHANGED <<remote, disk, reserved, made, strays>>

(* A slot is asked for, the file put there with a look at it before and    *)
(* after, and the batch polled until it is done or failed or the deadline  *)
(* has passed: nothing changes here but that the file must still be there. *)
Parse(c) ==
  /\ call[c].at = "parse"
  /\ (There(c) /\ Moves(c, "fetch")) \/ Leaves(c)
  /\ UNCHANGED <<remote, disk, reserved, made, strays>>

(* What is kept of each document, or nothing to read.                      *)
EvidenceOf == [d \in Document |-> FragmentsOf(d)]
Readable == {d \in Document : Normalized(d) # {}}

(* The directory of the archive, which is made again if it was swept.      *)
Fetch(c) ==
  /\ call[c].at = "fetch"
  /\ disk' = IF There(c) THEN disk ELSE With(disk, call[c].id, MakeDirectory(FALSE))
  /\ Moves(c, "archive")
  /\ UNCHANGED <<remote, reserved, made, strays>>

(* A chunk of the archive beyond the limit is refused before it is         *)
(* written; when the transport breaks, what was written is removed and the *)
(* download begins again.                                                  *)
ArchiveChunk(c) ==
  /\ call[c].at = "archive" /\ There(c)
  /\ \/ /\ disk[call[c].id].archive < MaxArchive
        /\ disk' = [disk EXCEPT ![call[c].id].archive = @ + 1]
     \/ disk' = [disk EXCEPT ![call[c].id].archive = 0]
  /\ UNCHANGED <<remote, reserved, made, call, strays>>

(* The archive is read, if it is there, and must have something to read;   *)
(* it is removed, or stays if that fails, also when its download was       *)
(* refused, broke for good or was cancelled.                               *)
ReadArchive(c) ==
  /\ call[c].at = "archive"
  /\ \/ /\ disk' = IF There(c) THEN [disk EXCEPT ![call[c].id].archive = 0] ELSE disk
        /\ \/ /\ There(c) /\ disk[call[c].id].archive > 0
              /\ \E d \in Readable :
                   call' = [call EXCEPT ![c].at = "retain", ![c].document = d]
           \/ Leaves(c)
     \/ There(c) /\ Leaves(c) /\ UNCHANGED disk
  /\ UNCHANGED <<remote, reserved, made, strays>>

(* The evidence is kept, and persisted within the context.                 *)
Retain(c) ==
  /\ call[c].at = "retain"
  /\ Leaves(c)
  /\ UNCHANGED <<remote, disk, reserved, made, strays>>

(* The finally of materialize: the directory goes, or stays if it cannot   *)
(* be removed, and the quota is freed either way.                          *)
CleanUp(c) ==
  /\ call[c].at = "remove"
  /\ \/ disk' = Without(disk, call[c].id) /\ UNCHANGED strays
     \/ There(c) /\ UNCHANGED disk /\ strays' = strays \cup {call[c].id}
  /\ Moves(c, "release")
  /\ UNCHANGED <<remote, reserved, made>>

Release(c) ==
  /\ call[c].at = "release"
  /\ reserved' = Without(reserved, call[c].id)
  /\ Ends(c)
  /\ UNCHANGED <<remote, disk, made, strays>>

(* Cancelled while it waits.                                               *)
Cancel(c) ==
  /\ call[c].at \notin {"idle", "archive", "remove", "release"}
  /\ IF call[c].at \in {"stat", "reserve"} THEN Ends(c) ELSE Leaves(c)
  /\ UNCHANGED <<remote, disk, reserved, made, strays>>

(* sweep_abandoned.                                                        *)
Sweep(id) ==
  /\ id \in DOMAIN disk /\ disk[id].manifest
  /\ disk' = Without(disk, id)
  /\ UNCHANGED <<remote, reserved, made, call, strays>>

Crash ==
  /\ reserved # << >>
  /\ reserved' = << >>
  /\ call' = [c \in Call |-> NoCall]
  /\ strays' = strays \cup DOMAIN disk
  /\ UNCHANGED <<remote, disk, made>>

BodyNext ==
  \/ \E s \in File : Replace(s) \/ \E c \in Call : BeginBody(c, s)
  \/ \E c \in Call :
       \/ Stat(c) \/ ReserveRefused(c) \/ Reserve(c) \/ ReserveBreaks(c)
       \/ Open(c) \/ Download(c) \/ Chunk(c) \/ EndOfStream(c)
       \/ Parse(c) \/ Fetch(c) \/ ArchiveChunk(c) \/ ReadArchive(c) \/ Retain(c)
       \/ CleanUp(c) \/ Release(c) \/ Cancel(c)
  \/ \E id \in DOMAIN disk : Sweep(id)
  \/ Crash

BodySpec == BodyInit /\ [][BodyNext]_bodyVars
-----------------------------------------------------------------------------
Held(c) == call[c].at \in {"open", "download", "stream", "parse", "fetch",
                           "archive", "retain", "remove", "release"}
Accepted(c) == call[c].at \in {"parse", "fetch", "archive", "retain"}

(* What is handed to the parser is the version that was looked at first,   *)
(* whole: the second look of open_stream refuses a file replaced between   *)
(* stat and the download, also by one of the same size.  It does not reach *)
(* a file replaced during the download, nor one without modified_at.       *)
BodyOfTheVersion ==
  \A c \in Call : Accepted(c) /\ call[c].file \in Timed /\ ~call[c].touched =>
    call[c].body = [i \in 1..Expected(c) |-> call[c].version]

(* The quota of SpoolManager: it holds what the calls in progress hold and *)
(* nothing of those that failed, were cancelled or could not clean up; it  *)
(* keeps within the policy; every directory that no failure or crash left  *)
(* behind is in it, and every body within what is reserved for it.  The    *)
(* archive of the parser beside it, which is not reserved for, keeps its   *)
(* own limit.                                                              *)
Accounted ==
  /\ DOMAIN reserved = {call[c].id : c \in {x \in Call : Held(x)}}
  /\ Cardinality(DOMAIN reserved) <= MaxActive /\ Promised <= MaxTotal
  /\ (DOMAIN disk) \ strays \subseteq DOMAIN reserved
  /\ \A id \in DOMAIN disk :
       /\ disk[id].archive <= MaxArchive
       /\ id \in DOMAIN reserved => disk[id].body <= reserved[id]

(* _validate_global_capacity looks at what is on disk, not at what the     *)
(* other calls were promised and have yet to write, nor at the archives    *)
(* that no quota holds: bodies and archives take the derived data over its *)
(* target, and may over its hard cap, but by no more than the whole quota  *)
(* and an archive for each reservation leave beside one object, after any  *)
(* crashes, failed removals and sweeps.                                    *)
Allowance == MaxTotal + MaxActive * MaxArchive
DerivedBounded ==
  Derived <= Other \/ Derived <= (Target - MaxObject) + Allowance

(* The limits of the spool, of what is promised and of what is written.    *)
SpoolBounded == Accounted /\ DerivedBounded

(* What is kept of a document is the best of it: retain stops at the limit *)
(* and skips what it has seen, and yet no better text is lost to a         *)
(* repetition or to a block that is refused; and each block names the      *)
(* headings it stands under, however their levels skip.                    *)
BestOf == [d \in Document |-> Best(d)]
BestEvidence ==
  \A c \in Call : call[c].at = "retain" =>
    LET d == call[c].document  kept == EvidenceOf[d] IN
    /\ {kept[i] : i \in DOMAIN kept} = BestOf[d]
    /\ \A i \in DOMAIN kept : StandsUnder(d, kept[i])
=============================================================================
