---------------------------- MODULE ObjectStorage ----------------------------
(***************************************************************************)
(* Objects and state files: the file back-ends of infra/storage and        *)
(* io/atomicfile, which survive a power loss, and the retrying and the     *)
(* encrypting store around a back-end.                                     *)
(***************************************************************************)
EXTENDS Integers, FiniteSets, Faults

-------------------------------------------------------------------------------
(***************************************************************************)
(* infra/storage: one key of the three backends that keep objects as       *)
(* files.  localbackend writes a temporary file, syncs it, renames it over *)
(* the object and syncs the directory; sftpbackend writes a temporary file,*)
(* removes the object and renames.  The immutable local backend keeps, in  *)
(* a second directory, a marker with the version of each key, written      *)
(* before the object and left behind when the object is deleted.  A        *)
(* directory has what it shows and the entries a power loss may leave.     *)
(***************************************************************************)

CONSTANTS ObjectWriters,
          ObjectBackends,  \* a subset of {"local", "immutable", "sftp"}
          MaxPuts          \* bound on the Puts begun

ASSUME FileAssumption == MaxPuts \in Nat /\ ObjectBackends \subseteq {"local", "immutable", "sftp"}

VARIABLES
    objectBackend,   \* which backend it is
    dirs,      \* per directory: now, what it shows, and disk, what may survive
    putter,    \* per caller of Put: its place, directory, Put and rename
    mutexOf,     \* who holds the mutex of the immutable backend
    puts,      \* how many Puts began; its number is a Put's content and version
    changes,   \* how often a directory entry changed
    floor,     \* the change that the last acknowledged Put made
    acked,     \* the Puts that returned without an error
    named      \* <<version, content>> for every GetVersion that found its object

fileState == <<objectBackend, dirs, putter, mutexOf, puts, changes, floor, acked, named>>
fileVars == <<fileState, faults>>

NoFile == 0
Torn == -1
NoHolder == "none"
Dirs == {"markers", "objects"}
Entry(c, p, by, safe) == [change |-> c, put |-> p, by |-> by, synced |-> safe]
Shown(d) == dirs[d].now.put
IdlePutter == [at |-> "idle", dir |-> "objects", put |-> 0, change |-> 0, synced |-> FALSE]
PutterAt(w, place) == putter[w].at = place
PutterGoes(w, place) == putter' = [putter EXCEPT ![w].at = place]

FileInit ==
    /\ objectBackend \in ObjectBackends
    /\ dirs = [d \in Dirs |-> LET e == Entry(0, NoFile, "delete", TRUE) IN [now |-> e, disk |-> {e}]]
    /\ putter = [w \in ObjectWriters |-> IdlePutter] /\ mutexOf = NoHolder
    /\ puts = 0 /\ changes = 0 /\ floor = 0 /\ acked = {} /\ named = {} /\ faults = 0

\* The entry of directory d changes; until the directory is synced a power
\* loss may leave this entry or one of those before it.
Changed(d, p, by, safe) ==
    LET e == Entry(changes + 1, p, by, safe)
    IN  /\ dirs' = [dirs EXCEPT ![d] = [now |-> e, disk |-> @.disk \cup {e}]]
        /\ changes' = changes + 1

\* Fault model of FirstDir: the object is written before its version.
ObjectFirst == "objects"

FirstDir == IF objectBackend = "immutable" THEN "markers" ELSE "objects"

\* Put: the immutable backend takes its mutex, refuses a key that exists and
\* draws a version.
BeginPut(w) ==
    /\ PutterAt(w, "idle") /\ puts < MaxPuts
    /\ objectBackend = "immutable" => mutexOf = NoHolder /\ Shown("objects") = NoFile
    /\ mutexOf' = IF objectBackend = "immutable" THEN w ELSE mutexOf
    /\ puts' = puts + 1
    /\ putter' = [putter EXCEPT ![w] = [IdlePutter EXCEPT !.at = "write", !.dir = FirstDir, !.put = puts + 1]]
    /\ UNCHANGED <<objectBackend, dirs, changes, floor, acked, named, faults>>

\* Fault model of Synced: the file is renamed without a sync.
NeverSynced == FALSE

Synced == objectBackend # "sftp"

\* The copy into the temporary file, and its sync.
WriteTemp(w) ==
    /\ PutterAt(w, "write")
    /\ putter' = [putter EXCEPT ![w].synced = Synced,
                                ![w].at = IF objectBackend = "sftp" THEN "remove" ELSE "rename"]
    /\ UNCHANGED <<objectBackend, dirs, mutexOf, puts, changes, floor, acked, named, faults>>

\* commitPutRename (sftp) removes the object first; it carries on if it cannot.
RemoveOldObject(w) ==
    /\ PutterAt(w, "remove") /\ PutterGoes(w, "rename")
    /\ \/ Shown("objects") # NoFile /\ Changed("objects", NoFile, "put", TRUE) /\ UNCHANGED faults
       \/ Shown("objects") = NoFile /\ UNCHANGED <<dirs, changes, faults>>
       \/ Fault /\ UNCHANGED <<dirs, changes>>
    /\ UNCHANGED <<objectBackend, mutexOf, puts, floor, acked, named>>

\* Put returns; the immutable backend gives its mutex back.
LeavePut(w) ==
    /\ putter' = [putter EXCEPT ![w] = IdlePutter]
    /\ mutexOf' = IF mutexOf = w THEN NoHolder ELSE mutexOf

\* The rename: over the object, or, by an SFTP server, only to a free name.
RenameTemp(w) ==
    /\ PutterAt(w, "rename")
    /\ IF objectBackend = "sftp" /\ Shown("objects") # NoFile
       THEN LeavePut(w) /\ UNCHANGED <<dirs, changes>>
       ELSE /\ Changed(putter[w].dir, putter[w].put, "put", putter[w].synced)
            /\ putter' = [putter EXCEPT ![w].at = IF objectBackend = "sftp" THEN "done" ELSE "syncdir",
                                        ![w].change = changes + 1]
            /\ UNCHANGED mutexOf
    /\ UNCHANGED <<objectBackend, puts, floor, acked, named, faults>>

\* Fault model of SyncDir: the directory is not synced.
SyncNothing(d) == dirs

SyncDir(d) == [dirs EXCEPT ![d].disk = {dirs[d].now}]

\* fsyncDir; after the marker the object is written the same way.
EndRename(w) ==
    /\ PutterAt(w, "syncdir") /\ dirs' = SyncDir(putter[w].dir)
    /\ IF objectBackend = "immutable" /\ putter[w].dir = FirstDir
       THEN putter' = [putter EXCEPT ![w].at = "write",
                                     ![w].dir = CHOOSE d \in Dirs : d # FirstDir]
       ELSE PutterGoes(w, "done")
    /\ UNCHANGED <<objectBackend, mutexOf, puts, changes, floor, acked, named, faults>>

\* Put returns without an error.
AckPut(w) ==
    /\ PutterAt(w, "done") /\ LeavePut(w)
    /\ floor' = IF floor > putter[w].change THEN floor ELSE putter[w].change
    /\ acked' = acked \cup {putter[w].put}
    /\ UNCHANGED <<objectBackend, dirs, puts, changes, named, faults>>

\* A step of Put fails: the temporary file is removed and the error returned.
FailPut(w) ==
    /\ putter[w].at \in {"write", "rename", "syncdir"} /\ Fault /\ LeavePut(w)
    /\ UNCHANGED <<objectBackend, dirs, puts, changes, floor, acked, named>>

\* Delete, and DeleteVersion of the current version: the directory is not
\* synced.  The marker stays.
DeleteObject ==
    /\ Shown("objects") # NoFile /\ mutexOf = NoHolder
    /\ Changed("objects", NoFile, "delete", TRUE)
    /\ UNCHANGED <<objectBackend, putter, mutexOf, puts, floor, acked, named, faults>>

\* CurrentVersion and GetVersion: the marker's version and the object's content.
GetVersion ==
    /\ objectBackend = "immutable" /\ mutexOf = NoHolder
    /\ Shown("markers") # NoFile /\ Shown("objects") # NoFile
    /\ named' = named \cup {<<Shown("markers"), Shown("objects")>>}
    /\ UNCHANGED <<objectBackend, dirs, putter, mutexOf, puts, changes, floor, acked, faults>>

\* The file after a power loss: what was not synced is torn.
AfterLoss(e) == IF e.synced THEN e ELSE [e EXCEPT !.put = Torn, !.synced = TRUE]

\* The process ends; for the local backends with the machine, and then each
\* directory keeps one of the entries it may keep.
Crash ==
    /\ Fault
    /\ putter' = [w \in ObjectWriters |-> IdlePutter] /\ mutexOf' = NoHolder
    /\ IF objectBackend = "sftp" THEN UNCHANGED dirs
       ELSE \E m \in dirs["markers"].disk, o \in dirs["objects"].disk :
              dirs' = [d \in Dirs |-> LET e == AfterLoss(IF d = "markers" THEN m ELSE o)
                                      IN  [now |-> e, disk |-> {e}]]
    /\ UNCHANGED <<objectBackend, puts, changes, floor, acked, named>>

PutStep(w) == BeginPut(w) \/ WriteTemp(w) \/ RemoveOldObject(w) \/ RenameTemp(w) \/ EndRename(w) \/ AckPut(w)

FileNext ==
    \/ \E w \in ObjectWriters : PutStep(w) \/ FailPut(w)
    \/ DeleteObject \/ GetVersion \/ Crash

FileSpec == FileInit /\ [][FileNext]_fileVars

-----------------------------------------------------------------------------

FileTypeOK ==
    /\ objectBackend \in ObjectBackends /\ puts \in 0..MaxPuts /\ changes \in Nat /\ floor \in 0..changes
    /\ \A d \in Dirs : dirs[d].now \in dirs[d].disk /\ \A e \in dirs[d].disk : e.put \in Torn..puts
    /\ mutexOf \in ObjectWriters \cup {NoHolder}
    /\ mutexOf # NoHolder => objectBackend = "immutable" /\ ~PutterAt(mutexOf, "idle")
    /\ acked \subseteq 1..puts /\ named \subseteq (1..MaxPuts) \X (1..MaxPuts)

\* After a power loss a local object is never a torn file, and it is never
\* older than the last Put that returned without an error (Put syncs the file
\* before the rename and the directory after it).
AckedPutSurvives ==
    objectBackend # "sftp" => /\ Shown("objects") # Torn /\ Shown("markers") # Torn
                        /\ dirs["objects"].now.change >= floor

\* A version that the immutable backend acknowledged always names its content,
\* through failed Puts, deletions, new Puts of the key and power losses (the
\* marker gets its new version before the object is written).
VersionNamesOneContent == \A n \in named : n[1] \in acked => n[2] = n[1]

\* "commitPutRename atomically replaces remotePath with tmpPath": replacing an
\* object never makes it disappear.
OverwriteKeepsAnObject == Shown("objects") = NoFile => dirs["objects"].now.by = "delete"

-------------------------------------------------------------------------------
(***************************************************************************)
(* io/atomicfile: Save writes a temporary file, syncs it, renames it over  *)
(* the state file and syncs the directory, ignoring an error of the last;  *)
(* Load reads the file back.  A power loss keeps of a file only what was   *)
(* synced, and of the directory some entry since its last sync.            *)
(***************************************************************************)

CONSTANTS Savers,      \* concurrent callers of Save on one path
          MaxSaves     \* bound on the calls of Save

VARIABLES
    saver,       \* per caller: its place, the version it saves, and the saves
                 \* that had ended when it began
    inode,       \* per version: "none", "partial", "written", "synced"
    dirEntry,       \* the version the path names, 0 if the file does not exist
    onDisk,      \* the entries a power loss may leave
    temps,       \* temporary files left in the directory
    loaded       \* what the last Load gave: "none", "absent", "value", "error"

atomicState == <<saver, inode, dirEntry, onDisk, temps, loaded>>
atomicVars == <<atomicState, faults>>

Versions == 1..MaxSaves
IdleSaver == [at |-> "idle", version |-> 0, before |-> {}]

InSave(s) == saver[s].at \in {"write", "sync", "rename", "dirsync"}

\* The versions whose Save had ended, and the absent file, when a Save begins.
EndedBefore(v) == {w \in 0..v - 1 : \A s \in Savers : InSave(s) => saver[s].version # w}

AtomicInit ==
    /\ saver = [s \in Savers |-> IdleSaver] /\ inode = [v \in Versions |-> "none"]
    /\ dirEntry = 0 /\ onDisk = {0} /\ temps = {} /\ loaded = "none" /\ faults = 0

SaverAt(s, place) == saver' = [saver EXCEPT ![s].at = place]

BeginSave(s) ==
    \E v \in Versions :
        /\ saver[s].at = "idle" /\ inode[v] = "none" /\ \A w \in 1..v - 1 : inode[w] # "none"
        /\ saver' = [saver EXCEPT ![s] = [at |-> "write", version |-> v, before |-> EndedBefore(v)]]
        /\ inode' = [inode EXCEPT ![v] = "partial"] /\ temps' = temps \cup {v}
        /\ UNCHANGED <<dirEntry, onDisk, loaded, faults>>

WriteData(s) ==
    /\ saver[s].at = "write" /\ SaverAt(s, "sync")
    /\ inode' = [inode EXCEPT ![saver[s].version] = "written"]
    /\ UNCHANGED <<dirEntry, onDisk, temps, loaded, faults>>

\* Fault model of SyncData: the temporary file is renamed without a sync.
SyncNoData(s) == saver[s].at = "sync" /\ SaverAt(s, "rename") /\ UNCHANGED inode

SyncData(s) ==
    /\ saver[s].at = "sync" /\ SaverAt(s, "rename")
    /\ inode' = [inode EXCEPT ![saver[s].version] = "synced"]

SyncTemp(s) == SyncData(s) /\ UNCHANGED <<dirEntry, onDisk, temps, loaded, faults>>

\* os.Rename, on the same file system.
RenameOver(s) ==
    /\ saver[s].at = "rename" /\ SaverAt(s, "dirsync")
    /\ dirEntry' = saver[s].version /\ onDisk' = onDisk \cup {saver[s].version}
    /\ temps' = temps \ {saver[s].version}
    /\ UNCHANGED <<inode, loaded, faults>>

\* Fault model of ReplacesByCopy: the data is copied into the file itself.
CopiesInPlace(s) ==
    /\ dirEntry' = saver[s].version /\ inode' = [inode EXCEPT ![saver[s].version] = "partial"]

\* copyAndReplace, when the rename crosses devices: a second temporary file
\* next to the path gets the data and its sync before it takes the name.
ReplacesByCopy(s) ==
    dirEntry' = saver[s].version /\ inode' = [inode EXCEPT ![saver[s].version] = "synced"]

CopyAndReplace(s) ==
    /\ saver[s].at = "rename" /\ Fault /\ SaverAt(s, "dirsync") /\ ReplacesByCopy(s)
    /\ onDisk' = onDisk \cup {saver[s].version} /\ temps' = temps \ {saver[s].version}
    /\ UNCHANGED loaded

\* Any step before the rename may fail: the temporary file is removed.
FailSave(s) ==
    /\ saver[s].at \in {"write", "sync", "rename"} /\ Fault /\ SaverAt(s, "failed")
    /\ temps' = temps \ {saver[s].version}
    /\ UNCHANGED <<inode, dirEntry, onDisk, loaded>>

\* Fault model of DirSynced: the directory is never synced.
NotDirSynced == UNCHANGED onDisk

DirSynced == onDisk' = {dirEntry}

\* The error of the directory's sync is ignored; Save has succeeded.
SyncDirectory(s) ==
    /\ saver[s].at = "dirsync"
    /\ \/ DirSynced /\ SaverAt(s, "saved") /\ UNCHANGED faults
       \/ Fault /\ SaverAt(s, "saved unsynced") /\ UNCHANGED onDisk
    /\ UNCHANGED <<inode, dirEntry, temps, loaded>>

SaveAgain(s) ==
    /\ saver[s].at \in {"saved", "saved unsynced", "failed"}
    /\ \E v \in Versions : inode[v] = "none"
    /\ saver' = [saver EXCEPT ![s] = IdleSaver]
    /\ UNCHANGED <<inode, dirEntry, onDisk, temps, loaded, faults>>

Load ==
    /\ loaded' = (CASE dirEntry = 0 -> "absent" [] dirEntry # 0 /\ inode[dirEntry] \in {"written", "synced"} -> "value"
                    [] OTHER -> "error")
    /\ loaded' # loaded /\ UNCHANGED <<saver, inode, dirEntry, onDisk, temps, faults>>

\* A power loss: unsynced data is cut short, unsynced entries may be undone,
\* and every call ends.
PowerLoss ==
    /\ Fault
    /\ \E e \in onDisk : dirEntry' = e /\ onDisk' = {e}
    /\ inode' = [v \in Versions |-> IF inode[v] = "written" THEN "partial" ELSE inode[v]]
    /\ saver' = [s \in Savers |-> IF saver[s].at \in {"saved", "idle"} THEN saver[s]
                                  ELSE [saver[s] EXCEPT !.at = "failed"]]
    /\ UNCHANGED <<temps, loaded>>

SaveStep(s) ==
    \/ BeginSave(s) \/ WriteData(s) \/ SyncTemp(s) \/ RenameOver(s) \/ CopyAndReplace(s)
    \/ FailSave(s) \/ SyncDirectory(s)

AtomicNext == Load \/ PowerLoss \/ \E s \in Savers : SaveStep(s) \/ SaveAgain(s)

AtomicSpec == AtomicInit /\ [][AtomicNext]_atomicVars

AtomicTypeOK ==
    /\ dirEntry \in 0..MaxSaves /\ dirEntry \in onDisk /\ onDisk \subseteq 0..MaxSaves
    /\ \A s \in Savers : saver[s].version \in 0..MaxSaves
    /\ \A v \in Versions : inode[v] \in {"none", "partial", "written", "synced"}

\* Whatever the interleaving of saves and wherever a power loss falls, Load
\* gives a whole saved value or says that there is none (sync before rename).
LoadsWholeValue == loaded # "error"

\* After a Save whose directory sync worked has returned, a power loss cannot
\* undo it: the file exists, and no version whose Save had ended before this
\* one began comes back.
SavedSurvives ==
    \A s \in Savers : saver[s].at = "saved" => onDisk \cap saver[s].before = {}

-------------------------------------------------------------------------------
(***************************************************************************)
(* infra/storage/retry over resilience/retry: an upload that is tried      *)
(* again.  The body is a reader that each attempt consumes, wholly or in   *)
(* part; a seekable one is rewound to where it stood when Put was called,  *)
(* any other gets one attempt.  The retry policy bounds the retries, starts*)
(* counting anew after an attempt that ran long enough (StableReset), and  *)
(* gives up after MaxElapsedTime and on a cancelled context.               *)
(***************************************************************************)

CONSTANTS MaxRetries, StableReset, MaxElapsed,
          BodyEnd,         \* the length of the reader's content
          MaxRetryTime     \* bound on the clock

ASSUME RetryAssumption == {MaxRetries, StableReset, MaxElapsed} \subseteq Nat /\ BodyEnd \in Nat \ {0} /\ MaxRetryTime \in Nat

VARIABLES
    policy,     \* the retry policy
    body,       \* the reader: seekable, start (where Put found it), pos
    storedBody,     \* what of the reader the backend holds as the object
    at,         \* where doWithPolicy is
    tryNo,    \* the attempt counter of the policy
    calls,      \* calls of the backend so far
    quick,      \* failed calls since the last one that ran long enough
    tries,      \* the clock, and when the running call began
    ctxEnded   \* the caller's context

retryState == <<policy, body, storedBody, at, tryNo, calls, quick, tries, ctxEnded>>
retryVars == <<retryState, faults>>

\* The policy of the storage wrapper, that of a worker, and one bounded by its
\* elapsed time alone; 0 and -1 are off.
RetryPolicies ==
    {[retries |-> MaxRetries, stable |-> 0, elapsed |-> 0],
     [retries |-> MaxRetries, stable |-> StableReset, elapsed |-> 0],
     [retries |-> -1, stable |-> 0, elapsed |-> MaxElapsed]}

NothingStored == <<>>
Loops == body.seekable

RetryInit ==
    /\ policy \in RetryPolicies
    /\ \E s \in BOOLEAN, p \in 0..(BodyEnd - 1) : body = [seekable |-> s, start |-> p, pos |-> p]
    /\ storedBody = NothingStored /\ at = "check" /\ tryNo = 0 /\ calls = 0 /\ quick = 0
    /\ tries = [now |-> 0, began |-> 0] /\ ctxEnded = FALSE /\ faults = 0

\* Fault model of Rewound: the retry goes on where the last attempt stopped.
NotRewound == body

Rewound == IF calls = 0 \/ ~body.seekable THEN body ELSE [body EXCEPT !.pos = body.start]

\* The next attempt: a seekable reader is rewound before every retry.
BeginAttempt ==
    /\ at = "check"
    /\ IF ctxEnded /\ Loops THEN at' = "failed" /\ UNCHANGED <<body, calls, tries>>
       ELSE /\ at' = "calling" /\ body' = Rewound /\ calls' = calls + 1
            /\ tries' = [tries EXCEPT !.began = tries.now]
    /\ UNCHANGED <<policy, storedBody, tryNo, quick, ctxEnded, faults>>

\* The backend stores the rest of the reader.
CallSucceeds ==
    /\ at = "calling" /\ at' = "ok"
    /\ storedBody' = <<body.pos, BodyEnd>> /\ body' = [body EXCEPT !.pos = BodyEnd]
    /\ UNCHANGED <<policy, tryNo, calls, quick, tries, ctxEnded, faults>>

\* Fault model of Retries: the attempt counter starts anew at every failure.
RetriesForever(a) == TRUE

\* evaluateRetry, the bound: a is the counter after StableReset had its say.
Retries(a) == policy.retries < 0 \/ a < policy.retries

\* Fault model of MayRetry: a reader that cannot be rewound is retried as well.
MayRetryAny(transient) == transient

MayRetry(transient) == transient /\ Loops

\* The call fails, having read some of the body, or all of it with the answer
\* lost after the object was stored; evaluateRetry decides what is next.
CallFails ==
    /\ at = "calling" /\ Fault
    /\ \E p \in body.pos..BodyEnd, transient, kept \in BOOLEAN :
         LET stable == policy.stable > 0 /\ tries.now - tries.began >= policy.stable
             again == IF stable THEN 0 ELSE tryNo
         IN  /\ kept => p = BodyEnd
             /\ storedBody' = IF kept THEN <<body.pos, BodyEnd>> ELSE storedBody
             /\ body' = [body EXCEPT !.pos = p]
             /\ quick' = IF stable THEN 0 ELSE quick + 1
             /\ \/ /\ MayRetry(transient) /\ ~ctxEnded /\ Retries(again)
                   /\ (policy.elapsed = 0 \/ tries.now < policy.elapsed)
                   /\ at' = "waiting" /\ tryNo' = again
                \/ /\ (~MayRetry(transient) \/ ctxEnded \/ ~Retries(again)
                         \/ (policy.elapsed > 0 /\ tries.now >= policy.elapsed))
                   /\ at' = "failed" /\ UNCHANGED tryNo
    /\ UNCHANGED <<policy, calls, tries, ctxEnded>>

\* The wait ends by its timer or by the context.
WaitEnds ==
    /\ at = "waiting"
    /\ \/ at' = "check" /\ tryNo' = tryNo + 1
       \/ ctxEnded /\ at' = "failed" /\ UNCHANGED tryNo
    /\ UNCHANGED <<policy, body, storedBody, calls, quick, tries, ctxEnded, faults>>

CancelPut ==
    /\ ~ctxEnded /\ ctxEnded' = TRUE
    /\ UNCHANGED <<policy, body, storedBody, at, tryNo, calls, quick, tries, faults>>

RetryTick ==
    /\ tries.now < MaxRetryTime /\ at \in {"calling", "waiting"}
    /\ tries' = [tries EXCEPT !.now = @ + 1]
    /\ UNCHANGED <<policy, body, storedBody, at, tryNo, calls, quick, ctxEnded, faults>>

RetryNext == BeginAttempt \/ CallSucceeds \/ CallFails \/ WaitEnds \/ CancelPut \/ RetryTick

RetrySpec == RetryInit /\ [][RetryNext]_retryVars
-----------------------------------------------------------------------------

RetryTypeOK ==
    /\ policy \in RetryPolicies /\ body.start \in 0..BodyEnd /\ body.pos \in 0..BodyEnd
    /\ at \in {"check", "calling", "waiting", "ok", "failed"}
    /\ tryNo \in Nat /\ calls \in Nat /\ quick \in 0..calls /\ ctxEnded \in BOOLEAN
    /\ tries.began <= tries.now

\* What the backend holds is the body from where the reader stood when Put was
\* called to its end, whichever attempt wrote it and even if Put then failed.
StoredIsTheBody == storedBody \in {NothingStored, <<body.start, BodyEnd>>}

\* There are never more than MaxRetries retries of calls that failed quickly:
\* StableReset forgives only the calls before it.
QuickFailuresAreBounded == policy.retries >= 0 => quick <= policy.retries + 1

-------------------------------------------------------------------------------
(***************************************************************************)
(* infra/storage/encryption: the three semaphores of the encrypting store. *)
(* Put encrypts under a put slot; Get decrypts under a decrypt slot, gives *)
(* it back and then takes an open slot that its reader keeps until Close;  *)
(* Copy is a Get whose reader is the body of a Put.  A caller may give up  *)
(* while it waits, any call of the backend or of the key provider may      *)
(* fail, and a caller may forget to close its reader.                      *)
(***************************************************************************)

CONSTANTS EncUsers, PutCap, DecryptCap, OpenCap   \* the users and the three caps

ASSUME EncAssumption == {PutCap, DecryptCap, OpenCap} \subseteq Nat \ {0}

VARIABLES
    op,      \* per user: the operation it runs, or "none"
    stage,   \* per user: how far it is
    slots    \* the slots taken of each semaphore

encState == <<op, stage, slots>>
encVars == <<encState, faults>>

Caps == [put |-> PutCap, decrypt |-> DecryptCap, open |-> OpenCap]
Stages == {"out", "decrypt?", "decrypting", "open?", "reading", "leaked", "put?", "encrypting"}
Stands(u, s) == stage[u] = s
MovesTo(u, s) == stage' = [stage EXCEPT ![u] = s]
Took(sem) == slots' = [slots EXCEPT ![sem] = @ + 1]
Gave(sem) == slots' = [slots EXCEPT ![sem] = @ - 1]

EncInit ==
    /\ op = [u \in EncUsers |-> "none"] /\ stage = [u \in EncUsers |-> "out"]
    /\ slots = [put |-> 0, decrypt |-> 0, open |-> 0] /\ faults = 0

BeginCrypt(u) ==
    /\ Stands(u, "out")
    /\ \E o \in {"get", "put", "copy"} :
          /\ op' = [op EXCEPT ![u] = o] /\ MovesTo(u, IF o = "put" THEN "put?" ELSE "decrypt?")
    /\ UNCHANGED <<slots, faults>>

Ends(u) == op' = [op EXCEPT ![u] = "none"] /\ MovesTo(u, "out")

\* A slot is taken when there is one, else the caller waits.
Await(u, sem, wait, next) ==
    /\ Stands(u, wait) /\ slots[sem] < Caps[sem] /\ Took(sem) /\ MovesTo(u, next)
    /\ UNCHANGED <<op, faults>>

AwaitDecrypt(u) == Await(u, "decrypt", "decrypt?", "decrypting")
AwaitOpen(u) == Await(u, "open", "open?", "reading")
AwaitPut(u) == Await(u, "put", "put?", "encrypting")

\* Fault model of GaveReader: the reader's slot goes back with every Put.
GaveReaderAlways(u) == [slots EXCEPT !["open"] = @ - 1]

\* The reader of a Copy is closed when its Put ends, however it ends.
GaveReader(u) == [slots EXCEPT !["open"] = IF op[u] = "copy" THEN @ - 1 ELSE @]

\* The caller's context ends while it waits for a slot.
GiveUp(u) ==
    /\ stage[u] \in {"decrypt?", "open?", "put?"} /\ Fault /\ Ends(u)
    /\ slots' = IF Stands(u, "put?") THEN GaveReader(u) ELSE slots

\* Fault model of Decrypt: the decrypt slot is kept until there is an open one.
DecryptKeepsSlot(u) ==
    /\ Stands(u, "decrypting") /\ slots["open"] < OpenCap
    /\ slots' = [slots EXCEPT !["decrypt"] = @ - 1, !["open"] = @ + 1] /\ MovesTo(u, "reading")
    /\ UNCHANGED <<op, faults>>

\* The key, the ciphertext and its decryption; the decrypt slot goes back.
Decrypt(u) ==
    /\ Stands(u, "decrypting") /\ Gave("decrypt") /\ MovesTo(u, "open?")
    /\ UNCHANGED <<op, faults>>

\* Fault model of DecryptFails: an error keeps the slot.
DecryptFailsHolding(u) ==
    /\ Stands(u, "decrypting") /\ Fault /\ Ends(u) /\ UNCHANGED slots

DecryptFails(u) == Stands(u, "decrypting") /\ Fault /\ Gave("decrypt") /\ Ends(u)

\* The caller of Get closes its reader, or never does; Copy goes on to its Put.
CloseReader(u) ==
    /\ Stands(u, "reading")
    /\ \/ op[u] = "get" /\ Gave("open") /\ Ends(u) /\ UNCHANGED faults
       \/ op[u] = "get" /\ Fault /\ MovesTo(u, "leaked") /\ UNCHANGED <<op, slots>>
       \/ op[u] = "copy" /\ MovesTo(u, "put?") /\ UNCHANGED <<op, slots, faults>>

\* Put: encrypted and stored, or failed; the slots go back.
Encrypt(u) ==
    /\ Stands(u, "encrypting") /\ Ends(u)
    /\ slots' = [GaveReader(u) EXCEPT !["put"] = @ - 1]
    /\ (UNCHANGED faults \/ Fault)

CryptStep(u) ==
    \/ AwaitDecrypt(u) \/ AwaitOpen(u) \/ AwaitPut(u)
    \/ Decrypt(u) \/ CloseReader(u) \/ Encrypt(u)

EncNext == \E u \in EncUsers : BeginCrypt(u) \/ CryptStep(u) \/ GiveUp(u) \/ DecryptFails(u)

EncSpec == EncInit /\ [][EncNext]_encVars /\ \A u \in EncUsers : WF_encVars(CryptStep(u))
-----------------------------------------------------------------------------

EncTypeOK ==
    /\ op \in [EncUsers -> {"none", "get", "put", "copy"}] /\ stage \in [EncUsers -> Stages]
    /\ \A s \in DOMAIN Caps : slots[s] \in 0..Caps[s]

Standing(S) == Cardinality({u \in EncUsers : stage[u] \in S})
HoldsOpen(u) == stage[u] \in {"reading", "leaked"} \/ (op[u] = "copy" /\ stage[u] \in {"put?", "encrypting"})

\* Every slot taken belongs to a call or a reader that will give it back: no
\* failure, cancellation or Copy loses a slot or gives one back twice.
CryptSlotsExact ==
    /\ slots["decrypt"] = Standing({"decrypting"}) /\ slots["put"] = Standing({"encrypting"})
    /\ slots["open"] = Cardinality({u \in EncUsers : HoldsOpen(u)})

\* Readers that nobody closes cannot keep the decrypt slots: one is free again
\* and again (the slot goes back once the plaintext is there, before the wait
\* for an open slot).
EncSettled == slots["decrypt"] < DecryptCap

\* "so a leaky caller cannot pin unbounded plaintext buffers": at most one
\* plaintext for every open slot and every decrypt slot.
PlaintextIsBounded ==
    Standing({"decrypting", "open?"}) + slots["open"] <= OpenCap + DecryptCap
================================================================================
