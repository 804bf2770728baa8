------------------------------- MODULE FileSink -------------------------------
(***************************************************************************)
(* The FileSink of AsyncLogger: the buffer, the file at path_, the rotated  *)
(* files, and the process's table of descriptors, which other threads use  *)
(* too.  The worker of AsyncLogger is the only caller, but rotate() closes  *)
(* its descriptor, renames the file, closes the same number again and opens *)
(* the path: between these calls the other threads and the clock go on.    *)
(*                                                                         *)
(* Log text is counted in units, numbered in the order of write().  A file  *)
(* is the set of its units: a call of ::write appends the front of buf_,    *)
(* so the order inside a file is that of the calls.  fsync is left out: it  *)
(* matters only to a machine that crashes.                                 *)
(***************************************************************************)
EXTENDS Integers

CONSTANTS
    Rotate,   \* rotate_bytes_
    MaxFd,    \* the process may have the descriptors 0..MaxFd
    MaxUnit,  \* bound: units
    MaxSec    \* bound: the clock, in seconds

ASSUME RotateIsPositive == Rotate \in Nat \ {0}
ASSUME BoundsAreNat == {MaxFd, MaxUnit, MaxSec} \subseteq Nat

VARIABLES
    (* the sink *)
    pc,       \* where the worker is
    fd_,      \* its descriptor; -1 after a failed open
    buf_,     \* units in buf_
    written_, \* units since the file was opened
    name,     \* the second in the name of the latest rotated file
    (* the file system *)
    exists, file, \* whether there is a file at path_, and its units
    archive,  \* archive[s]: the units of the file renamed in second s
    (* the process *)
    table,    \* table[f]: descriptor f is "free", of this "sink", or of an "other"
    others,   \* the descriptors that other threads take for theirs
    now,      \* time()
    (* history *)
    n,        \* units given to write()
    lost,     \* units that a short or failed ::write did not take
    stray,    \* units that ::write put into what another thread had opened
    replaced, \* units of a rotated file that a later rename() replaced
    hasty,    \* two rotations began in the same second
    met       \* another thread was given fd_ between the two calls of close

sinkVars == <<fd_, buf_, written_, name>>
diskVars == <<exists, file, archive>>
procVars == <<table, others, now>>
fateVars == <<lost, stray, replaced>>
histVars == <<n, fateVars, hasty, met>>
vars == <<pc, sinkVars, diskVars, procVars, histVars>>

Fd == 0..MaxFd
Unit == 1..MaxUnit
Second == 0..MaxSec

TypeOK ==
    /\ pc \in {"none", "idle", "close", "rename", "reopen", "open"}
    /\ fd_ \in Fd \cup {-1} /\ {buf_, file, lost, stray, replaced} \subseteq SUBSET Unit
    /\ written_ \in 0..Rotate /\ (pc = "idle" => written_ < Rotate)
    /\ name \in Second \cup {-1} /\ now \in Second
    /\ archive \in [Second -> SUBSET Unit]
    /\ table \in [Fd -> {"free", "sink", "other"}] /\ others \subseteq Fd
    /\ n \in 0..MaxUnit
    /\ {exists, hasty, met} \subseteq BOOLEAN

Init ==
    /\ pc = "none" /\ fd_ = -1 /\ buf_ = {} /\ written_ = 0 /\ name = -1
    /\ exists = FALSE /\ file = {} /\ archive = [s \in Second |-> {}]
    /\ table = [f \in Fd |-> "free"] /\ others = {} /\ now = 0
    /\ n = 0 /\ lost = {} /\ stray = {} /\ replaced = {} /\ hasty = FALSE /\ met = FALSE

(* The kernel: close(f) of any number, and the descriptor open() returns.   *)
Close(f) == table' = [g \in Fd |-> IF g = f THEN "free" ELSE table[g]]

IsLowest(f) == f \in Fd /\ table[f] = "free" /\ \A g \in Fd : table[g] = "free" => f <= g
-----------------------------------------------------------------------------
(* The constructor, and the destructor: run() has flushed before.           *)

(* A variant: the new sink begins with the number the old one had. *)
CreateStale ==
    /\ pc = "none"
    /\ buf_' = {}
    /\ pc' = "reopen"
    /\ UNCHANGED <<fd_, written_, name, diskVars, procVars, histVars>>

Create ==
    /\ pc = "none"
    /\ fd_' = -1 /\ buf_' = {}
    /\ pc' = "open"
    /\ UNCHANGED <<written_, name, diskVars, procVars, histVars>>

(* A variant: the descriptor is left open. *)
DestroyUnclosed ==
    /\ pc = "idle" /\ buf_ = {}
    /\ pc' = "none"
    /\ UNCHANGED <<sinkVars, diskVars, procVars, histVars>>

Destroy ==
    /\ pc = "idle" /\ buf_ = {}
    /\ Close(fd_)
    /\ pc' = "none"
    /\ UNCHANGED <<sinkVars, diskVars, others, now, histVars>>
-----------------------------------------------------------------------------
(* write() and rotate(). *)

(* One more unit; when the count is full, rotate() begins, with the name.   *)
Write ==
    /\ pc = "idle" /\ n < MaxUnit
    /\ n' = n + 1
    /\ buf_' = buf_ \cup {n + 1}
    /\ written_' = written_ + 1
    /\ IF written_ + 1 >= Rotate
       THEN pc' = "close" /\ name' = now /\ hasty' = (hasty \/ name = now)
       ELSE UNCHANGED <<pc, name, hasty>>
    /\ UNCHANGED <<fd_, diskVars, procVars, fateVars, met>>

RotateClose ==
    /\ pc = "close"
    /\ Close(fd_)
    /\ pc' = "rename"
    /\ UNCHANGED <<sinkVars, diskVars, others, now, histVars>>

(* rename() replaces what has the new name, and fails without a file. *)
Rename ==
    /\ pc = "rename"
    /\ archive' = IF exists THEN [archive EXCEPT ![name] = file] ELSE archive
    /\ replaced' = IF exists THEN replaced \cup archive[name] ELSE replaced
    /\ exists' = FALSE /\ file' = {}
    /\ pc' = "reopen"
    /\ UNCHANGED <<sinkVars, procVars, n, lost, stray, hasty, met>>

(* open_file(), of a sink that has a descriptor, closes it once more ... *)
OpenClose ==
    /\ pc = "reopen"
    /\ Close(fd_)
    /\ pc' = "open"
    /\ UNCHANGED <<sinkVars, diskVars, others, now, histVars>>

(* open() with O_CREAT, which fails when no descriptor is left. *)
OpenPath ==
    \/ \E f \in Fd : IsLowest(f) /\ fd_' = f /\ table' = [table EXCEPT ![f] = "sink"] /\ exists' = TRUE
    \/ (\A f \in Fd : table[f] # "free") /\ fd_' = -1 /\ UNCHANGED <<table, exists>>

(* A variant: the count goes on over a rotation. *)
OpenUncounted ==
    /\ pc = "open"
    /\ OpenPath
    /\ pc' = "idle"
    /\ UNCHANGED <<written_, buf_, name, file, archive, others, now, histVars>>

(* A variant: O_TRUNC for O_APPEND. *)
OpenTruncating ==
    /\ pc = "open"
    /\ OpenPath
    /\ file' = IF fd_' = -1 THEN file ELSE {}
    /\ written_' = 0
    /\ pc' = "idle"
    /\ UNCHANGED <<buf_, name, archive, others, now, histVars>>

(* ... and opens the path. *)
Open ==
    /\ pc = "open"
    /\ OpenPath
    /\ written_' = 0
    /\ pc' = "idle"
    /\ UNCHANGED <<buf_, name, file, archive, others, now, histVars>>
-----------------------------------------------------------------------------
(* flush(). *)

(* ::write(fd_) takes a front part of the buffer and puts it where the      *)
(* number now leads: the file, or what another thread opened with it; it    *)
(* takes nothing when the number is not open.                              *)
WriteThrough(part) ==
    /\ \A u \in part, v \in buf_ \ part : u < v
    /\ lost' = lost \cup (buf_ \ part)
    /\ \/ part = {} /\ UNCHANGED <<file, stray>>
       \/ fd_ \in Fd /\ table[fd_] = "sink" /\ file' = file \cup part /\ UNCHANGED stray
       \/ fd_ \in Fd /\ table[fd_] = "other" /\ stray' = stray \cup part /\ UNCHANGED file

(* A variant: the buffer is not cleared. *)
FlushUncleared ==
    /\ pc = "idle"
    /\ \E part \in SUBSET buf_ : WriteThrough(part)
    /\ UNCHANGED <<pc, sinkVars, exists, archive, procVars, n, replaced, hasty, met>>

(* After a short or a failed write too the whole buffer is cleared. *)
Flush ==
    /\ pc = "idle"
    /\ \E part \in SUBSET buf_ : WriteThrough(part)
    /\ buf_' = {}
    /\ UNCHANGED <<pc, fd_, written_, name, exists, archive, procVars, n, replaced, hasty, met>>
-----------------------------------------------------------------------------
(* The other threads, and time. *)

OtherOpen ==
    /\ \E f \in Fd :
        /\ IsLowest(f)
        /\ table' = [table EXCEPT ![f] = "other"]
        /\ others' = others \cup {f}
        /\ met' = (met \/ (f = fd_ /\ pc \in {"rename", "reopen"}))
    /\ UNCHANGED <<pc, sinkVars, diskVars, now, n, fateVars, hasty>>

OtherClose ==
    /\ \E f \in others : Close(f) /\ others' = others \ {f}
    /\ UNCHANGED <<pc, sinkVars, diskVars, now, histVars>>

Tick ==
    /\ now < MaxSec
    /\ now' = now + 1
    /\ UNCHANGED <<pc, sinkVars, diskVars, table, others, histVars>>

Sink == Create \/ Write \/ RotateClose \/ Rename \/ OpenClose \/ Open \/ Flush \/ Destroy

Next == Sink \/ OtherOpen \/ OtherClose \/ Tick

Spec == Init /\ [][Next]_vars
-----------------------------------------------------------------------------
(* Properties. *)

Kept == file \cup UNION {archive[s] : s \in Second}

(* Every unit given to write() is in one place: in the buffer, in a file,   *)
(* refused by ::write, in another thread's descriptor, or replaced with the *)
(* rotated file it was in.  The last two befall no unit unless another      *)
(* thread met the descriptor, or a second saw two rotations.               *)
EveryUnitOnce ==
    /\ 1..n = buf_ \cup Kept \cup lost \cup stray \cup replaced
    /\ buf_ \cap (Kept \cup lost \cup stray \cup replaced) = {}
    /\ Kept \cap (lost \cup stray \cup replaced) = {}
    /\ lost \cap (stray \cup replaced) = {} /\ stray \cap replaced = {}
    /\ ~met => stray = {}
    /\ ~hasty => replaced = {}

(* Over the rotated files by their names, the file and the buffer the units *)
(* are in the order of write().                                            *)
InOrder ==
    /\ \A s, r \in Second : s < r => \A u \in archive[s], v \in archive[r] : u < v
    /\ \A s \in Second : \A u \in archive[s], v \in file : u < v
    /\ \A u \in Kept, v \in buf_ : u < v

(* The sink has at most one descriptor, the one it writes to, if no other   *)
(* thread met it between its two calls of close.                           *)
OwnsItsDescriptor ==
    ~met => /\ \A f \in Fd : table[f] = "sink" => f = fd_
            /\ pc = "idle" /\ fd_ # -1 => table[fd_] = "sink"

(* Nor does the sink then close what belongs to others. *)
LeavesOthersAlone == [][\A f \in others : table[f] = "other" /\ Sink => table'[f] = "other" \/ met]_vars

(* FileSink appends: what is in a file stays in a file ... *)
Appends == [][Kept \subseteq Kept']_vars

(* ... unless a second saw two rotations. *)
AppendsUnlessHasty == [][Kept \subseteq Kept' \/ hasty]_vars
=============================================================================
