----------------------------- MODULE JarvisAgent -----------------------------
(***************************************************************************)
(* The trading agent of one account (jarvis.service.ts,                    *)
(* jarvis.processor.ts): its owner enables, disables and configures it     *)
(* through HTTP requests; job schedulers and one worker run a lifecycle    *)
(* that reads the settings, asks a language model and trades.  Requests    *)
(* and the run interleave at every await, and both save the settings row   *)
(* they read, all columns of it.  What the model decides is any choice of  *)
(* actions; leverage, size and the event feed are left out.                *)
(***************************************************************************)
EXTENDS Naturals

CONSTANTS
  MaxPositions,   \* bound: positions of the account
  MaxOpens,       \* what the owner may set max_open_positions to
  DefaultMax,     \* JARVIS_DEFAULT_MAX_OPEN_POSITIONS
  MaxActions,     \* bound: actions the model asks for in a phase
  MaxFaults,      \* bound: failed awaits and restarts
  NoRow, NoAnswer

Settings == [enabled : BOOLEAN, dry_run : BOOLEAN, max : MaxOpens, welcomed : BOOLEAN]

ASSUME AgentAssumption ==
  /\ MaxPositions \in Nat /\ MaxOpens \subseteq Nat /\ DefaultMax \in MaxOpens
  /\ MaxActions \in Nat /\ MaxFaults \in Nat /\ NoRow \notin Settings

VARIABLES
  row,          \* the settings in the database
  schedulers,   \* job schedulers in the queue's store
  waiting,      \* a job of the account waits in the queue (another adds nothing)
  locked,       \* lifecycleLocks holds the account
  run,          \* what the worker is doing
  client,       \* what the owner's request is doing
  open,         \* number of positions on the chain
  index,        \* ... as the indexer last saw them
  told,         \* history: the last answer, until a later request saves or fails
  faults

vars == <<row, schedulers, waiting, locked, run, client, open, index, told, faults>>
ownerVars == <<client, told>>
chainVars == <<open, index>>

Answers    == [enabled : BOOLEAN, dry_run : BOOLEAN, max : MaxOpens, sure : BOOLEAN]
Schedulers == {"regular", "fast"}
Stages     == {"load", "stamp", "check", "ready", "think", "act", "submit", "sync"}
Updates    == [dry_run : BOOLEAN, max : MaxOpens]

Idle == [at |-> "idle"]
Quiet == [at |-> "none"]

NewSettings(on, dry, max) ==
  [enabled |-> on, dry_run |-> dry, max |-> max, welcomed |-> FALSE]

\* What an answer shows of the row; defaults for an account without one.
Shown(sure) ==
  LET s == IF row = NoRow THEN NewSettings(FALSE, FALSE, DefaultMax) ELSE row
  IN  [enabled |-> s.enabled, dry_run |-> s.dry_run, max |-> s.max, sure |-> sure]

\* The owner has an answer that nothing was racing with.
Known == told # NoAnswer /\ told.sure

Init ==
  /\ row = NoRow /\ schedulers = {} /\ waiting = FALSE /\ locked = FALSE
  /\ run = Idle /\ client = Quiet
  /\ open = 0 /\ index = 0
  /\ told = NoAnswer /\ faults = 0

-----------------------------------------------------------------------------
(* Requests of the owner.  find ... *)

Request(asks, update) ==
  /\ client = Quiet
  /\ client' = [at |-> "save", asks |-> asks, update |-> update, mine |-> row,
                sure |-> asks # "update" \/ Known]
  /\ UNCHANGED <<row, schedulers, waiting, locked, run, chainVars, told, faults>>

\* A run that has read the row and not yet stamped it will save what it read.
Racing == run.at = "stamp"

Proceeds(to, sure) == client' = [at |-> to, sure |-> sure]

Saved(settings, to) ==
  /\ row' = settings
  /\ Proceeds(to, client.sure /\ ~Racing)
  /\ told' = NoAnswer

\* ... save ...
SaveEnabled ==
  /\ client.at = "save" /\ client.asks = "enable"
  /\ LET mine == IF client.mine = NoRow THEN NewSettings(TRUE, FALSE, DefaultMax)
                 ELSE [client.mine EXCEPT !.enabled = TRUE]
     IN  /\ row' = mine
         /\ client' = [at |-> "register", sure |-> client.sure /\ ~Racing, mine |-> mine]
         /\ told' = NoAnswer
  /\ UNCHANGED <<schedulers, waiting, locked, run, chainVars, faults>>

SaveDisabled ==
  /\ client.at = "save" /\ client.asks = "disable"
  /\ IF client.mine = NoRow
     THEN Proceeds("unregister", client.sure) /\ UNCHANGED <<row, told>>
     ELSE Saved([client.mine EXCEPT !.enabled = FALSE], "unregister")
  /\ UNCHANGED <<schedulers, waiting, locked, run, chainVars, faults>>

SaveUpdate ==
  /\ client.at = "save" /\ client.asks = "update"
  /\ LET u == client.update
     IN  Saved(IF client.mine = NoRow THEN NewSettings(FALSE, u.dry_run, u.max)
               ELSE [client.mine EXCEPT !.dry_run = u.dry_run, !.max = u.max],
               "answer")
  /\ UNCHANGED <<schedulers, waiting, locked, run, chainVars, faults>>

(* registerAccountJob: a scheduler, and a first run at once *)
Registered ==
  /\ schedulers' = schedulers \cup {"regular"}
  /\ waiting' = TRUE

\* Variant: an account that was welcomed is taken for one that has its job.
RegisterNewOnly ==
  /\ client.at = "register"
  /\ IF client.mine.welcomed THEN UNCHANGED <<schedulers, waiting>> ELSE Registered
  /\ IF client.mine.welcomed THEN Proceeds("answer", client.sure)
     ELSE client' = [at |-> "welcome", sure |-> client.sure, mine |-> client.mine]
  /\ UNCHANGED <<row, locked, run, chainVars, told, faults>>

Register ==
  /\ client.at = "register"
  /\ Registered
  /\ IF client.mine.welcomed THEN Proceeds("answer", client.sure)
     ELSE client' = [at |-> "welcome", sure |-> client.sure, mine |-> client.mine]
  /\ UNCHANGED <<row, locked, run, chainVars, told, faults>>

\* The welcome is an event and a second save of the same object.
Welcome ==
  /\ client.at = "welcome"
  /\ Saved([client.mine EXCEPT !.welcomed = TRUE], "answer")
  /\ UNCHANGED <<schedulers, waiting, locked, run, chainVars, faults>>

(* removeAccountJob: an error of the queue is logged and swallowed. *)
Unregister ==
  /\ \/ client.at = "unregister"
        /\ Proceeds("unregister_fast", client.sure)
        /\ schedulers' = schedulers \ {"regular"}
     \/ client.at = "unregister_fast"
        /\ Proceeds("answer", client.sure)
        /\ schedulers' = schedulers \ {"fast"}
  /\ UNCHANGED <<row, waiting, locked, run, chainVars, told, faults>>

UnregisterFails ==
  /\ client.at \in {"unregister", "unregister_fast"} /\ faults < MaxFaults
  /\ Proceeds(IF client.at = "unregister" THEN "unregister_fast" ELSE "answer", client.sure)
  /\ faults' = faults + 1
  /\ UNCHANGED <<row, schedulers, waiting, locked, run, chainVars, told>>

\* getStatus and getSettings read the row again for the answer.  It is not
\* sure after a race with the run, nor when an update shows the row of a request
\* that failed half way.
Answer ==
  /\ client.at = "answer"
  /\ told' = Shown(client.sure)
  /\ client' = Quiet
  /\ UNCHANGED <<row, schedulers, waiting, locked, run, chainVars, faults>>

\* An await of the request throws, perhaps between the scheduler and the first
\* run: the owner sees an error.
RequestFails ==
  /\ client.at \in {"save", "register", "welcome", "answer"} /\ faults < MaxFaults
  /\ client' = Quiet /\ told' = NoAnswer /\ faults' = faults + 1
  /\ \/ UNCHANGED schedulers
     \/ client.at = "register" /\ schedulers' = schedulers \cup {"regular"}
  /\ UNCHANGED <<row, waiting, locked, run, chainVars>>

-----------------------------------------------------------------------------
(* The worker.  One job at a time; a scheduler adds its next job.            *)

Fire(s) ==
  /\ s \in schedulers /\ ~waiting
  /\ waiting' = TRUE
  /\ UNCHANGED <<row, schedulers, locked, run, ownerVars, chainVars, faults>>

(* runLifecycle: a job of an account that is locked is dropped. *)
Take ==
  /\ run = Idle /\ waiting
  /\ waiting' = FALSE
  /\ IF locked THEN UNCHANGED <<run, locked>>
     ELSE run' = [at |-> "load"] /\ locked' = TRUE
  /\ UNCHANGED <<row, schedulers, ownerVars, chainVars, faults>>

\* Variant: the lock outlives a run that finds its account disabled.
EndsUnlessSkipped ==
  /\ run' = Idle
  /\ locked' = (run.at = "load")

Ends ==
  /\ run' = Idle
  /\ locked' = FALSE

Goes(to) == run' = [at |-> to, mine |-> run.mine, allowed |-> run.allowed] /\ UNCHANGED locked
Finishes == run' = [at |-> "sync", mine |-> run.mine] /\ UNCHANGED locked

\* Variant: the row is looked up by its key alone.
MayRunIfKnown == row # NoRow

\* Settings under which a run may trade, as far as the owner knows.
OwnerLets == ~Known \/ (told.enabled /\ ~told.dry_run)

MayRun == row # NoRow /\ row.enabled

Load ==
  /\ run.at = "load"
  /\ IF MayRun
     THEN run' = [at |-> "stamp", mine |-> row, allowed |-> OwnerLets] /\ UNCHANGED locked
     ELSE Ends
  /\ UNCHANGED <<row, schedulers, waiting, ownerVars, chainVars, faults>>

\* last_run_at_ms is set, and the row saved as it was read.
Stamp ==
  /\ run.at = "stamp"
  /\ row' = run.mine
  /\ Goes("check")
  /\ UNCHANGED <<schedulers, waiting, ownerVars, chainVars, faults>>

(* checkHardPreconditions, and whether the language model is configured *)
Check ==
  /\ run.at = "check"
  /\ Goes("ready") \/ Finishes
  /\ UNCHANGED <<row, schedulers, waiting, ownerVars, chainVars, faults>>

(* A listing of the indexer gives a count; a failed one gives none, and limits
   nothing. *)
Counts == {{index}, {}}
Allows(count) == \A n \in count : n < run.mine.max

(* getTradeReadiness: the balance may be too low. *)
Ready ==
  /\ run.at = "ready"
  /\ \E count \in Counts, funded \in BOOLEAN :
       run' = [at |-> "think", mine |-> run.mine, allowed |-> run.allowed,
               phase |-> "positions", canOpen |-> Allows(count) /\ funded]
  /\ UNCHANGED <<row, schedulers, waiting, locked, ownerVars, chainVars, faults>>

PhaseOver ==
  IF run.phase = "positions" /\ run.canOpen
  THEN /\ run' = [at |-> "think", mine |-> run.mine, allowed |-> run.allowed,
                  phase |-> "markets", canOpen |-> FALSE]
       /\ UNCHANGED locked
  ELSE Finishes

Acting ==
  /\ run' = [at |-> "act", mine |-> run.mine, allowed |-> run.allowed, phase |-> run.phase,
             canOpen |-> run.canOpen, listed |-> run.phase = "positions" /\ index > 0,
             left |-> MaxActions]
  /\ UNCHANGED locked

(* runPositionPhase, runMarketPhase: no decision or no listing ends a phase. *)
Think ==
  /\ run.at = "think"
  /\ PhaseOver \/ Acting
  /\ UNCHANGED <<row, schedulers, waiting, ownerVars, chainVars, faults>>

Submits(tx) ==
  /\ run' = [at |-> "submit", mine |-> run.mine, allowed |-> run.allowed, phase |-> run.phase,
             canOpen |-> run.canOpen, listed |-> run.listed, left |-> run.left - 1,
             tx |-> tx]
  /\ UNCHANGED <<row, schedulers, waiting, locked, ownerVars, chainVars, faults>>

(* executeAction: close a position or redeem two fifths of it.  It was listed
   when the phase began; one that has ended since fails on the chain. *)
Reduce ==
  /\ run.at = "act" /\ run.listed /\ run.left > 0 /\ ~run.mine.dry_run
  /\ Submits("reduce")

(* executeOpenAction counts again for every position it opens; the index may
   lag behind what this run opened before, and the limit be passed. *)
Open ==
  /\ run.at = "act" /\ run.left > 0 /\ ~run.mine.dry_run
  /\ \E count \in Counts : Allows(count)
  /\ Submits("open")

ActionsDone ==
  /\ run.at = "act"
  /\ PhaseOver
  /\ UNCHANGED <<row, schedulers, waiting, ownerVars, chainVars, faults>>

\* Variant: a position that has ended can be redeemed once more.
AfterStale(tx) ==
  IF tx = "open" THEN {n \in {open, open + 1} : 0 < n /\ n <= MaxPositions}
  ELSE {open - 1, open}

\* A market mint adds to the market's position or starts one; a redeem ends it,
\* or leaves a part.  The transaction, simulated and executed, changes the chain
\* or does not; the worker goes on either way, also when its answer was lost.
After(tx) ==
  IF tx = "open" THEN {n \in {open, open + 1} : 0 < n /\ n <= MaxPositions}
  ELSE {n \in {open - 1, open} : n >= 0}

Acts == [at |-> "act", mine |-> run.mine, allowed |-> run.allowed, phase |-> run.phase,
         canOpen |-> run.canOpen, listed |-> run.listed, left |-> run.left]

Execute ==
  /\ run.at = "submit"
  /\ open' \in After(run.tx)
  /\ run' = Acts
  /\ UNCHANGED <<row, schedulers, waiting, locked, ownerVars, index, faults>>

ExecuteFails ==
  /\ run.at = "submit"
  /\ run' = Acts
  /\ UNCHANGED <<row, schedulers, waiting, locked, ownerVars, chainVars, faults>>

\* Variant: the run saves its settings once more when it is over.
SyncAndSave ==
  /\ run.at = "sync"
  /\ row' = run.mine
  /\ Ends
  /\ UNCHANGED <<schedulers, waiting, ownerVars, chainVars, faults>>

(* syncFastScheduler, with the enabled flag the run once read: a position near
   its end is watched by the minute.  An error is logged and swallowed. *)
Sync ==
  /\ run.at = "sync"
  /\ \/ UNCHANGED schedulers
     \/ index > 0 /\ schedulers' = schedulers \cup {"fast"}
     \/ schedulers' = schedulers \ {"fast"}
  /\ Ends
  /\ UNCHANGED <<row, waiting, ownerVars, chainVars, faults>>

\* An await throws: before the stamp the job fails, after it the run is over.
RunFails ==
  /\ run.at \in {"load", "stamp", "check", "ready", "think", "act"} /\ faults < MaxFaults
  /\ IF run.at \in {"load", "stamp"} THEN Ends ELSE Finishes
  /\ faults' = faults + 1
  /\ UNCHANGED <<row, schedulers, waiting, ownerVars, chainVars>>

-----------------------------------------------------------------------------
(* The rest of the world *)

IndexerCatchesUp ==
  /\ index # open
  /\ index' = open
  /\ UNCHANGED <<row, schedulers, waiting, locked, run, ownerVars, open, faults>>

\* A liquidation, a settlement or the owner ends a position.
PositionEnds ==
  /\ open > 0
  /\ open' = open - 1
  /\ UNCHANGED <<row, schedulers, waiting, locked, run, ownerVars, index, faults>>

(* syncAllEnabledJobs; the job the worker held is stalled and waits again. *)
Restart ==
  /\ faults < MaxFaults
  /\ LET on == row # NoRow /\ row.enabled
     IN  /\ schedulers' = IF on THEN schedulers \cup {"regular"} ELSE schedulers
         /\ waiting' = (waiting \/ run # Idle \/ on)
  /\ run' = Idle /\ locked' = FALSE /\ client' = Quiet
  /\ told' = IF client = Quiet THEN told ELSE NoAnswer
  /\ faults' = faults + 1
  /\ UNCHANGED <<row, chainVars>>

RequestStep ==
  \/ SaveEnabled \/ SaveDisabled \/ SaveUpdate \/ Register \/ Welcome
  \/ Unregister \/ UnregisterFails \/ Answer \/ RequestFails

RunStep ==
  \/ Take \/ Load \/ Stamp \/ Check \/ Ready \/ Think \/ ActionsDone
  \/ Open \/ Reduce \/ Execute \/ ExecuteFails \/ Sync \/ RunFails

Next ==
  \/ \E u \in Updates : \E asks \in {"enable", "disable", "update"} :
       (asks # "update" => u = CHOOSE any \in Updates : TRUE) /\ Request(asks, u)
  \/ RequestStep
  \/ \E s \in Schedulers : Fire(s)
  \/ RunStep
  \/ IndexerCatchesUp
  \/ PositionEnds
  \/ Restart

Spec == Init /\ [][Next]_vars

\* The clock of the queue and its worker go on.
LiveSpec == Spec /\ WF_vars(Fire("regular")) /\ WF_vars(RunStep)

-----------------------------------------------------------------------------
(* Properties *)

TypeOK ==
  /\ row \in Settings \cup {NoRow}
  /\ schedulers \subseteq Schedulers /\ waiting \in BOOLEAN /\ locked \in BOOLEAN
  /\ run.at \in Stages \cup {"idle"}
  /\ run.at \in {"act", "submit"} => run.left \in 0..MaxActions
  /\ run.at \notin {"idle", "load"} => run.mine \in Settings
  /\ client.at \in {"none", "save", "register", "welcome", "unregister", "unregister_fast", "answer"}
  /\ open \in 0..MaxPositions /\ index \in 0..MaxPositions
  /\ told \in Answers \cup {NoAnswer} /\ faults \in 0..MaxFaults

\* What an answer told the owner stays true until the next request writes:
\* the run saves the whole row it read, and yet undoes nothing, unless it was
\* between its read and its save when the request saved.
AcknowledgedSettingsHold == Known => told = Shown(TRUE)

\* An owner who was told that the agent is on has a job that runs it, whatever
\* runs ended, failed or were cut off by a restart meanwhile.
EnabledMeansScheduled == Known /\ told.enabled => "regular" \in schedulers

\* A run keeps to the settings its owner was told before it began: neither a
\* job left over from before a pause nor a run under a dry run touches the
\* chain, whatever was saved, failed or restarted in between.  The limit on
\* positions is no part of it: it is compared with a count that may be stale.
NoTradeAgainstSettings ==
  run.at = "submit" => run.allowed

\* An owner who was told that the agent is on sees runs begin again and again:
\* no run, however it ends, leaves the account locked.
AgentKeepsRunning == <>[](Known /\ told.enabled) => []<>(run.at = "load")

\* What disable answers ("Jarvis paused ... until you turn me back on"): as long
\* as the owner asks for nothing else, the agent is not enabled again.
PausedUntilTurnedOn ==
  told # NoAnswer /\ ~told.enabled => row = NoRow \/ ~row.enabled
=============================================================================
