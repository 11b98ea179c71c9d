----------------------------- MODULE UndoLedger -----------------------------
(***************************************************************************)
(* The measuring harness's ledger (scripts/perf/lib/safety.js) and the     *)
(* scripts that rely on it: whatever a run is about to change is written   *)
(* down first, because nothing runs after a kill -9, and every run begins  *)
(* by undoing what dead runs left behind.                                  *)
(*                                                                         *)
(* A run patches a source file and drives a session over it (task4-        *)
(* control-leak.js), makes a twin of a collection (measure-db.js), starts  *)
(* an API of its own (api-instance.js), or only measures (task4-session).  *)
(* One is started at a time by hand; a session outlives the run that drove *)
(* it.  Each changes one thing, so records are named by their run, and     *)
(* runs are numbered in the order they start.  No pid is used twice.       *)
(***************************************************************************)
EXTENDS Integers, FiniteSets

CONSTANTS
  MaxRuns,        \* bound: runs started
  MaxKills,       \* bound: kill -9
  MaxUnreachable  \* bound: calls that find no database

ASSUME LedgerAssumption == {MaxRuns, MaxKills, MaxUnreachable} \subseteq Nat

Runs == 1..MaxRuns
NoRun == 0

VARIABLES
  runs,      \* what each run is doing, and whether it is alive
  records,   \* .leftovers/<run>.json: "none", "torn" or "whole"
  copies,    \* .leftovers/<run>.pristine: "none", or what it holds
  world,     \* the source file, the twin, and the API that holds the port
  mishaps    \* kills and unreachable databases so far; and whether a run was
             \* killed restoring a file that another had just restored

ledgerVars == <<runs, records, copies, world, mishaps>>

Drivers == {"file", "collection", "api", "stock", "session"}
Places == {"idle", "starting", "recovering", "ready", "copied", "guarded", "spawned",
           "working", "waiting", "leaving", "over"}

Unstarted == [at |-> "idle", does |-> "session", alive |-> FALSE, todo |-> {}, spared |-> {},
              failed |-> {}, inHand |-> NoRun, child |-> NoRun, measured |-> NoRun]

LedgerInit ==
  /\ runs = [p \in Runs |-> Unstarted]
  /\ records = [p \in Runs |-> "none"] /\ copies = [p \in Runs |-> "none"]
  /\ world = [file |-> "pristine", twin |-> "gone", port |-> NoRun]
  /\ mishaps = [kills |-> 0, unreachable |-> 0, overlap |-> FALSE]

IsAt(p, place) == runs[p].alive /\ runs[p].at = place
Put(p, f) == runs' = [runs EXCEPT ![p] = f]
Go(p, place) == Put(p, [runs[p] EXCEPT !.at = place])
Does(p, drivers) == runs[p].does \in drivers
Idle == {p \in Runs : runs[p].at = "idle"}
NextRun == CHOOSE p \in Idle : \A other \in Idle : p <= other

\* Mutant: pid before ownerPid, the one of the spawned server.
OwnerAliveByPid(i) ==
  IF Does(i, {"api", "stock"}) THEN world.port = i ELSE runs[i].alive
\* ownerAlive: a change in progress is not a leftover.
OwnerAlive(i) == runs[i].alive

Beginning(driver) == [Unstarted EXCEPT !.at = "starting", !.does = driver, !.alive = TRUE]

Start ==
  /\ Idle # {}
  /\ \A p \in Runs : runs[p].alive =>
       \E parent \in Runs : runs[parent].child = p /\ ~runs[parent].alive
  /\ \E driver \in Drivers : Put(NextRun, Beginning(driver))
  /\ UNCHANGED <<records, copies, world, mishaps>>

\* recoverLeftovers, the records there are: those that can be read and whose
\* run is alive are left alone.
LookForLeftovers(p) ==
  /\ IsAt(p, "starting")
  /\ LET there == {i \in Runs : records[i] # "none"}
         spared == {i \in there : records[i] = "whole" /\ OwnerAlive(i)}
     IN Put(p, [runs[p] EXCEPT !.at = "recovering", !.todo = there \ spared, !.spared = spared])
  /\ UNCHANGED <<records, copies, world, mishaps>>

----------------------------------------------------------------------------
(***************************************************************************)
(* Undoing a record.                                                       *)
(***************************************************************************)
\* undoFile, undoMongoCollection, undoProcess: what the world is then, and
\* whether the record's change is known to be undone.
UndoneFile(i) ==
  IF copies[i] = "none" THEN [ok |-> FALSE, world |-> world]
  ELSE [ok |-> TRUE, world |-> [world EXCEPT !.file = copies[i]]]
UndoneCollection(i) == [ok |-> TRUE, world |-> [world EXCEPT !.twin = "gone"]]
UndoneProcess(i) ==
  [ok |-> TRUE, world |-> [world EXCEPT !.port = IF @ = i THEN NoRun ELSE @]]

Undone(i) ==
  IF Does(i, {"file"}) THEN UndoneFile(i)
  ELSE IF Does(i, {"collection"}) THEN UndoneCollection(i) ELSE UndoneProcess(i)

\* One record of p's, undone or found to be beyond it.  A database that cannot
\* be connected to ends the run: getMongoClient is called outside of the try.
UndoRecord(p, i) ==
  /\ \/ /\ records[i] = "whole" /\ Undone(i).ok
        /\ world' = Undone(i).world /\ UNCHANGED mishaps
        /\ Put(p, [runs[p] EXCEPT !.todo = @ \ {i}, !.inHand = i])
     \/ /\ records[i] = "whole" => ~Undone(i).ok
        /\ Put(p, [runs[p] EXCEPT !.todo = @ \ {i}])
        /\ UNCHANGED <<world, mishaps>>
     \/ /\ records[i] = "whole" /\ Does(i, {"collection"}) /\ mishaps.unreachable < MaxUnreachable
        /\ mishaps' = [mishaps EXCEPT !.unreachable = @ + 1]
        /\ \/ Put(p, [runs[p] EXCEPT !.todo = @ \ {i}, !.failed = @ \cup {i}])
           \/ Put(p, [runs[p] EXCEPT !.at = "over", !.alive = FALSE])
        /\ UNCHANGED world
  /\ UNCHANGED <<records, copies>>

\* The loop of recoverLeftovers, oldest first.
Recover(p) ==
  /\ IsAt(p, "recovering") /\ runs[p].inHand = NoRun /\ runs[p].todo # {}
  /\ \E i \in runs[p].todo : (\A other \in runs[p].todo : i <= other) /\ UndoRecord(p, i)

\* release: the copy goes, then the record.
ReleaseCopy(p) ==
  /\ runs[p].alive /\ runs[p].inHand # NoRun /\ copies[runs[p].inHand] # "none"
  /\ copies' = [copies EXCEPT ![runs[p].inHand] = "none"]
  /\ UNCHANGED <<runs, records, world, mishaps>>

ReleaseRecord(p) ==
  /\ runs[p].alive /\ runs[p].inHand # NoRun /\ copies[runs[p].inHand] = "none"
  /\ records' = [records EXCEPT ![runs[p].inHand] = "none"]
  /\ Put(p, [runs[p] EXCEPT !.inHand = NoRun])
  /\ UNCHANGED <<copies, world, mishaps>>

Recovered(p) ==
  /\ IsAt(p, "recovering") /\ runs[p].inHand = NoRun /\ runs[p].todo = {}
  /\ Go(p, "ready")
  /\ UNCHANGED <<records, copies, world, mishaps>>

----------------------------------------------------------------------------
(***************************************************************************)
(* Changing something.                                                     *)
(***************************************************************************)
\* guardFile, first half; a patch of another run's makes the script throw.
CopyAside(p) ==
  /\ IsAt(p, "ready") /\ Does(p, {"file"})
  /\ IF world.file = "patched" THEN Go(p, "over") /\ UNCHANGED copies
     ELSE Go(p, "copied") /\ copies' = [copies EXCEPT ![p] = world.file]
  /\ UNCHANGED <<records, world, mishaps>>

\* spawn: a second server finds the port taken, and dies.
Spawn(p) ==
  /\ IsAt(p, "ready") /\ Does(p, {"api", "stock"})
  /\ world' = [world EXCEPT !.port = IF @ = NoRun THEN p ELSE @]
  /\ Go(p, "spawned")
  /\ UNCHANGED <<records, copies, mishaps>>

\* Where a script is when it writes its record.
BeforeGuard(p) ==
  IF Does(p, {"file"}) THEN "copied"
  ELSE IF Does(p, {"collection"}) THEN "ready"
  ELSE IF Does(p, {"api", "stock"}) THEN "spawned" ELSE "never"

\* writeRecord.
Guard(p) ==
  /\ IsAt(p, BeforeGuard(p)) /\ Go(p, "guarded")
  /\ records' = [records EXCEPT ![p] = "whole"]
  /\ UNCHANGED <<copies, world, mishaps>>

Patch(p) ==
  /\ IsAt(p, "guarded") /\ Does(p, {"file"})
  /\ world' = [world EXCEPT !.file = "patched"] /\ Go(p, "working")
  /\ UNCHANGED <<records, copies, mishaps>>

\* cloneWithoutIndexes; when the database is gone the script ends, and leaves
\* its record.
MakeTwin(p) ==
  /\ IsAt(p, "guarded") /\ Does(p, {"collection"})
  /\ \/ world' = [world EXCEPT !.twin = "made"] /\ Go(p, "working") /\ UNCHANGED mishaps
     \/ /\ mishaps.unreachable < MaxUnreachable
        /\ mishaps' = [mishaps EXCEPT !.unreachable = @ + 1]
        /\ Put(p, [runs[p] EXCEPT !.at = "over", !.alive = FALSE]) /\ UNCHANGED world
  /\ UNCHANGED <<records, copies>>

\* waitFor: whoever answers on the port; nobody for 90 seconds ends the run.
AwaitServer(p) ==
  /\ IsAt(p, "guarded") /\ Does(p, {"api", "stock"})
  /\ Put(p, IF world.port = NoRun THEN [runs[p] EXCEPT !.at = "leaving"]
            ELSE [runs[p] EXCEPT !.at = "working", !.measured = world.port])
  /\ UNCHANGED <<records, copies, world, mishaps>>

\* task4-control-leak.js drives task4-session.js, and waits for it.
DriveSession(p) ==
  /\ IsAt(p, "working") /\ Does(p, {"file"}) /\ Idle # {}
  /\ LET driven == [runs EXCEPT ![NextRun] = Beginning("session")]
     IN runs' = [driven EXCEPT ![p] = [runs[p] EXCEPT !.at = "waiting", !.child = NextRun]]
  /\ UNCHANGED <<records, copies, world, mishaps>>

SessionEnds(p) ==
  /\ IsAt(p, "waiting") /\ ~runs[runs[p].child].alive
  /\ Go(p, "leaving")
  /\ UNCHANGED <<records, copies, world, mishaps>>

\* stop, drop, the finally: nothing more to measure.
Finish(p) ==
  /\ \/ IsAt(p, "working") /\ (Does(p, {"file"}) => Idle = {})
     \/ IsAt(p, "ready") /\ Does(p, {"session"})
  /\ Go(p, "leaving")
  /\ world' = [world EXCEPT !.port = IF @ = p THEN NoRun ELSE @]
  /\ UNCHANGED <<records, copies, mishaps>>

\* undo: of its own record.
UndoOwn(p) ==
  /\ IsAt(p, "leaving") /\ runs[p].inHand = NoRun /\ records[p] = "whole" /\ p \notin runs[p].failed
  /\ UndoRecord(p, p)

Exit(p) ==
  /\ \/ IsAt(p, "over")
     \/ /\ IsAt(p, "leaving") /\ runs[p].inHand = NoRun
        /\ records[p] = "none" \/ p \in runs[p].failed
  /\ Put(p, [runs[p] EXCEPT !.at = "over", !.alive = FALSE])
  /\ UNCHANGED <<records, copies, world, mishaps>>

----------------------------------------------------------------------------
(***************************************************************************)
(* kill -9, between two writes or in the middle of one.                    *)
(***************************************************************************)
Killed(p, overlap) ==
  /\ runs[p].alive /\ mishaps.kills < MaxKills
  /\ mishaps' = [mishaps EXCEPT !.kills = @ + 1, !.overlap = @ \/ overlap]
  /\ Put(p, [runs[p] EXCEPT !.alive = FALSE])

Kill(p) == Killed(p, FALSE) /\ UNCHANGED <<records, copies, world>>

KillWriting(p) ==
  /\ Killed(p, runs[p].at = "recovering" /\ \E q \in Runs \ {p} :
                 runs[q].alive /\ runs[q].inHand \in runs[p].todo)
  /\ \/ /\ runs[p].at = "ready" /\ Does(p, {"file"}) /\ world.file # "patched"
        /\ copies' = [copies EXCEPT ![p] = "torn"] /\ UNCHANGED <<records, world>>
     \/ /\ runs[p].at = BeforeGuard(p)
        /\ records' = [records EXCEPT ![p] = "torn"] /\ UNCHANGED <<copies, world>>
     \/ /\ Does(p, {"file"}) /\ runs[p].at \in {"guarded", "leaving"}
        /\ runs[p].inHand = NoRun /\ records[p] = "whole"
        /\ world' = [world EXCEPT !.file = "torn"] /\ UNCHANGED <<records, copies>>
     \/ /\ runs[p].at = "recovering" /\ runs[p].inHand = NoRun
        /\ \E i \in runs[p].todo :
             /\ \A other \in runs[p].todo : i <= other
             /\ Does(i, {"file"}) /\ records[i] = "whole" /\ copies[i] # "none"
        /\ world' = [world EXCEPT !.file = "torn"] /\ UNCHANGED <<records, copies>>

\* control-preload.js: the server notices that the run is gone, unless it was
\* started without the preload.
Watchdog ==
  /\ world.port # NoRun /\ Does(world.port, {"api"}) /\ ~runs[world.port].alive
  /\ world' = [world EXCEPT !.port = NoRun]
  /\ UNCHANGED <<runs, records, copies, mishaps>>

\* What a run does of itself.
RunStep(p) ==
  \/ LookForLeftovers(p) \/ Recover(p) \/ ReleaseCopy(p) \/ ReleaseRecord(p) \/ Recovered(p)
  \/ CopyAside(p) \/ Spawn(p) \/ Guard(p) \/ Patch(p) \/ MakeTwin(p) \/ AwaitServer(p)
  \/ DriveSession(p) \/ SessionEnds(p) \/ Finish(p) \/ UndoOwn(p) \/ Exit(p)

LedgerNext ==
  \/ Start \/ Watchdog
  \/ \E p \in Runs : RunStep(p) \/ Kill(p) \/ KillWriting(p)

LedgerSpec == LedgerInit /\ [][LedgerNext]_ledgerVars

----------------------------------------------------------------------------
(***************************************************************************)
(* Properties                                                              *)
(***************************************************************************)
LedgerTypeOK ==
  /\ \A p \in Runs :
       /\ runs[p].at \in Places /\ runs[p].does \in Drivers /\ runs[p].alive \in BOOLEAN
       /\ runs[p].todo \cup runs[p].spared \cup runs[p].failed \subseteq Runs
  /\ records \in [Runs -> {"none", "torn", "whole"}]
  /\ copies \in [Runs -> {"none", "torn", "pristine", "patched"}]
  /\ world.file \in {"pristine", "torn", "patched"} /\ world.port \in Runs \cup {NoRun}

\* Killed between the spawn and the record, which cannot be written before the
\* pid is known.
Unrecorded(i) == ~runs[i].alive /\ runs[i].at = "spawned"

\* safety.js:12-22: at every moment a kill may come, what is changed has its
\* record on disk, whole, and a file its pristine copy (unless two runs restored
\* it at once, and one was killed in the middle of it); a server is on record but
\* for the moment after its spawn.
NothingIsForgotten ==
  /\ world.file # "pristine" /\ ~mishaps.overlap =>
       \E i \in Runs : records[i] = "whole" /\ Does(i, {"file"}) /\ copies[i] = "pristine"
  /\ world.twin = "made" => \E i \in Runs : records[i] = "whole" /\ Does(i, {"collection"})
  /\ world.port # NoRun =>
       records[world.port] = "whole" \/ IsAt(world.port, "spawned") \/ Unrecorded(world.port)

\* safety.js:220-263: a run that works, works on what it changed: no recovery,
\* not even of the session it drives, undoes the work of one that is alive; but
\* for a twin made while an older one could not be dropped, which has its name:
\* a session that looked earlier, and outlived its run, may drop both.
LiveWorkStays ==
  \A p \in Runs : IsAt(p, "working") \/ IsAt(p, "waiting") =>
    /\ Does(p, {"file"}) => world.file = "patched"
    /\ Does(p, {"collection"}) => world.twin = "made" \/ runs[p].failed # {}
    /\ runs[p].measured = p => world.port = p

\* safety.js:265-320: once a run has recovered, whatever is changed is of a run
\* that was alive when it looked, or began later, or is beyond its reach; a record
\* that stays is of one of those, or asks for nothing.
RecoveryIsComplete ==
  \A p \in Runs : IsAt(p, "ready") =>
    LET excused == runs[p].spared \cup runs[p].failed \cup {q \in Runs : q > p}
    IN /\ world.file # "pristine" /\ ~mishaps.overlap => \E i \in excused : Does(i, {"file"})
       /\ world.twin = "made" => \E i \in excused : Does(i, {"collection"})
       /\ world.port \in excused \cup {NoRun} \/ Unrecorded(world.port)
       /\ \A i \in Runs \ excused :
            \/ records[i] \in {"none", "torn"}
            \/ Does(i, {"file"}) /\ copies[i] = "none"

\* api-instance.js:62-113: a run measures the server it started, unless one that
\* is on no record holds the port.
MeasuresItsOwn ==
  \A p \in Runs : IsAt(p, "working") /\ Does(p, {"api", "stock"}) =>
    runs[p].measured = p \/ Unrecorded(runs[p].measured)

LedgerHolds ==
  LedgerTypeOK /\ NothingIsForgotten /\ LiveWorkStays /\ RecoveryIsComplete /\ MeasuresItsOwn
=============================================================================
