--------------------------- MODULE JarvisAgentProofs ---------------------------
(* The settings, the job and the limits of the trading agent, for any limits    *)
(* the owner may set, any number of positions, actions and faults.  The hard    *)
(* part is the run, which saves a row it read: why it undoes nothing but what a *)
(* request saved between the two, and why the answer of that request knows.     *)
EXTENDS JarvisAgent, TLAPS

Asks == {"enable", "disable", "update"}
Writing == {"register", "welcome", "unregister", "unregister_fast", "answer"}

\* What a request carries in each phase; it makes the row or it finds it.
ClientOK ==
  /\ client.at \in {"none", "save"} \cup Writing
  /\ client.at # "none" => client.sure \in BOOLEAN
  /\ client.at = "save" => /\ client.asks \in Asks /\ client.update \in Updates
                           /\ client.mine \in Settings \cup {NoRow}
                           /\ client.mine = NoRow => row = NoRow
  /\ client.at \in {"register", "welcome"} => client.mine \in Settings

\* What a run carries in each stage.  It had a row to begin with, and if the
\* owner has forbidden it to trade it knows it for a dry run.
RunOK ==
  /\ run.at \in Stages \cup {"idle"}
  /\ run.at \notin {"idle", "load"} => run.mine \in Settings /\ row # NoRow
  /\ run.at \notin {"idle", "load", "sync"} => /\ run.allowed \in BOOLEAN
                                               /\ run.allowed = TRUE \/ run.mine.dry_run = TRUE
  /\ run.at \in {"act", "submit"} => run.left \in 0..MaxActions
  /\ run.at = "submit" => run.mine.dry_run = FALSE

Shapes == TypeOK /\ ClientOK /\ RunOK

\* A run about to save an old row: no answer contradicts it, none ever will.
OldRowIsKnown ==
  run.at = "stamp" /\ run.mine # row =>
    /\ ~Known
    /\ client.at \in Writing => client.sure = FALSE

\* What the coming answer may promise about the job.
JobFollowsRow ==
  /\ client.at = "welcome" => "regular" \in schedulers
  /\ client.at = "save" /\ client.asks = "update" /\ client.sure =>
       Known /\ (client.mine # NoRow /\ client.mine.enabled => told.enabled)
  /\ client.at \in {"unregister", "unregister_fast"} =>
       /\ told = NoAnswer \/ row = NoRow
       /\ client.sure => row = NoRow \/ row.enabled = FALSE
  /\ client.at = "answer" /\ client.sure /\ row # NoRow /\ row.enabled => "regular" \in schedulers

AgentInv ==
  Shapes /\ OldRowIsKnown /\ AcknowledgedSettingsHold /\ JobFollowsRow /\ EnabledMeansScheduled

-----------------------------------------------------------------------------
(* Lemmas *)

\* What an answer shows of the row, and that there is an answer to show.
LEMMA ShownFields ==
  ASSUME Shapes, NEW sure \in BOOLEAN
  PROVE  /\ Shown(sure) \in Answers /\ Shown(sure).sure = sure
         /\ row = NoRow => Shown(sure).enabled = FALSE
         /\ row # NoRow => Shown(sure).enabled = row.enabled /\ Shown(sure).dry_run = row.dry_run
  BY AgentAssumption DEF Shapes, TypeOK, Shown, Answers, Settings, NewSettings

\* A step of the run that neither reads nor writes the row: the promises of the
\* answers stand (runLifecycleInner, syncFastScheduler).
LEMMA PromisesStand ==
  ASSUME AgentInv, UNCHANGED <<row, client, told>>, run'.at # "stamp",
         "regular" \in schedulers => "regular" \in schedulers'
  PROVE  OldRowIsKnown' /\ AcknowledgedSettingsHold' /\ JobFollowsRow' /\ EnabledMeansScheduled'
  BY DEF AgentInv, OldRowIsKnown, AcknowledgedSettingsHold, JobFollowsRow, EnabledMeansScheduled,
         Known, Shown

\* A step of anyone that leaves the settings, the request and the run alone.
LEMMA NothingSaid ==
  ASSUME AgentInv, UNCHANGED <<row, client, told, run>>,
         "regular" \in schedulers => "regular" \in schedulers'
  PROVE  OldRowIsKnown' /\ AcknowledgedSettingsHold' /\ JobFollowsRow' /\ EnabledMeansScheduled'
  BY DEF AgentInv, OldRowIsKnown, AcknowledgedSettingsHold, JobFollowsRow, EnabledMeansScheduled,
         Known, Shown

-----------------------------------------------------------------------------
(* Requests *)

LEMMA RequestKeeps ==
  ASSUME AgentInv, NEW asks \in Asks, NEW u \in Updates, Request(asks, u)
  PROVE  AgentInv'
<1>1. client' = [at |-> "save", asks |-> asks, update |-> u, mine |-> row,
                 sure |-> asks # "update" \/ Known]
      /\ UNCHANGED <<row, schedulers, waiting, locked, run, open, index, told, faults>>
  BY DEF Request, chainVars
<1>2. (asks # "update" \/ Known) \in BOOLEAN
  OBVIOUS
<1>3. TypeOK' /\ RunOK'
  BY <1>1 DEF AgentInv, Shapes, TypeOK, RunOK
<1>4. ClientOK'
  BY <1>1, <1>2 DEF AgentInv, Shapes, TypeOK, ClientOK, Writing
<1>5. OldRowIsKnown' /\ AcknowledgedSettingsHold' /\ EnabledMeansScheduled'
  BY <1>1 DEF AgentInv, OldRowIsKnown, AcknowledgedSettingsHold, EnabledMeansScheduled, Known, Shown,
              Writing
<1>6. asks = "update" /\ client'.sure => Known
  BY <1>1
<1>7. Known /\ row # NoRow /\ row.enabled => told.enabled
  BY ShownFields DEF AgentInv, AcknowledgedSettingsHold
<1>8. JobFollowsRow'
  BY <1>1, <1>6, <1>7 DEF JobFollowsRow, Known
<1> QED
  BY <1>3, <1>4, <1>5, <1>8 DEF AgentInv, Shapes

\* Whoever saves takes the last answer back, and is unsure if a run may save an
\* older row after it.
LEMMA SaveKeeps ==
  ASSUME AgentInv, NEW settings \in Settings, NEW sure \in BOOLEAN,
         row' = settings, told' = NoAnswer,
         client'.at \in Writing, client'.sure = (sure /\ ~Racing),
         client'.at \in {"register", "welcome"} => client'.mine \in Settings,
         UNCHANGED <<schedulers, waiting, locked, run, open, index, faults>>
  PROVE  Shapes' /\ OldRowIsKnown' /\ AcknowledgedSettingsHold' /\ EnabledMeansScheduled'
<1>1. TypeOK' 
  BY DEF AgentInv, Shapes, TypeOK, Writing, Settings
<1>2. ClientOK'
  BY DEF ClientOK, Writing
<1>3. RunOK'
  BY AgentAssumption DEF AgentInv, Shapes, RunOK
<1>4. OldRowIsKnown'
  BY DEF OldRowIsKnown, Known, Racing
<1> QED
  BY <1>1, <1>2, <1>3, <1>4 DEF Shapes, AcknowledgedSettingsHold, EnabledMeansScheduled, Known

LEMMA SaveEnabledKeeps == ASSUME AgentInv, SaveEnabled PROVE AgentInv'
<1> DEFINE mine == IF client.mine = NoRow THEN NewSettings(TRUE, FALSE, DefaultMax)
                   ELSE [client.mine EXCEPT !.enabled = TRUE]
<1>1. mine \in Settings
  BY AgentAssumption DEF AgentInv, Shapes, ClientOK, SaveEnabled, Settings, NewSettings
<1>2. /\ row' = mine /\ told' = NoAnswer
      /\ client' = [at |-> "register", sure |-> client.sure /\ ~Racing, mine |-> mine]
      /\ UNCHANGED <<schedulers, waiting, locked, run, open, index, faults>>
  BY DEF SaveEnabled, chainVars
<1>3. client.sure \in BOOLEAN
  BY DEF AgentInv, Shapes, ClientOK, SaveEnabled
<1> HIDE DEF mine
<1>4. /\ client'.at = "register" /\ client'.sure = (client.sure /\ ~Racing)
      /\ client'.mine \in Settings
  BY <1>1, <1>2
<1>5. Shapes' /\ OldRowIsKnown' /\ AcknowledgedSettingsHold' /\ EnabledMeansScheduled'
  BY <1>1, <1>2, <1>3, <1>4, SaveKeeps DEF Writing
<1>6. JobFollowsRow'
  BY <1>4 DEF JobFollowsRow
<1> QED
  BY <1>5, <1>6 DEF AgentInv

LEMMA SaveDisabledKeeps == ASSUME AgentInv, SaveDisabled PROVE AgentInv'
<1>1. /\ client.sure \in BOOLEAN /\ client.mine \in Settings \cup {NoRow}
      /\ client.mine = NoRow => row = NoRow
  BY DEF AgentInv, Shapes, ClientOK, SaveDisabled
<1>2. CASE client.mine = NoRow
  <2>1. /\ client' = [at |-> "unregister", sure |-> client.sure] /\ row = NoRow
        /\ UNCHANGED <<row, told, schedulers, waiting, locked, run, open, index, faults>>
    BY <1>1, <1>2 DEF SaveDisabled, Proceeds, chainVars
  <2>2. Shapes'
    BY <1>1, <2>1 DEF AgentInv, Shapes, TypeOK, ClientOK, RunOK, Writing
  <2>3. run.at # "stamp"
    BY <2>1 DEF AgentInv, Shapes, RunOK
  <2>4. OldRowIsKnown' /\ AcknowledgedSettingsHold' /\ EnabledMeansScheduled'
    BY <2>1, <2>3 DEF AgentInv, OldRowIsKnown, AcknowledgedSettingsHold, EnabledMeansScheduled,
                      Known, Shown
  <2>5. JobFollowsRow'
    BY <2>1 DEF JobFollowsRow
  <2> QED
    BY <2>2, <2>4, <2>5 DEF AgentInv
<1>3. CASE client.mine # NoRow
  <2> DEFINE mine == [client.mine EXCEPT !.enabled = FALSE]
  <2>1. mine \in Settings /\ mine.enabled = FALSE
    BY <1>1, <1>3 DEF Settings
  <2>2. /\ row' = mine /\ told' = NoAnswer
        /\ client' = [at |-> "unregister", sure |-> client.sure /\ ~Racing]
        /\ UNCHANGED <<schedulers, waiting, locked, run, open, index, faults>>
    BY <1>3 DEF SaveDisabled, Saved, Proceeds, chainVars
  <2> HIDE DEF mine
  <2>3. client'.at = "unregister" /\ client'.sure = (client.sure /\ ~Racing)
    BY <2>2
  <2>4. Shapes' /\ OldRowIsKnown' /\ AcknowledgedSettingsHold' /\ EnabledMeansScheduled'
    BY <1>1, <2>1, <2>2, <2>3, SaveKeeps DEF Writing
  <2>5. JobFollowsRow'
    BY <2>1, <2>2, <2>3 DEF JobFollowsRow
  <2> QED
    BY <2>4, <2>5 DEF AgentInv
<1> QED
  BY <1>2, <1>3

LEMMA SaveUpdateKeeps == ASSUME AgentInv, SaveUpdate PROVE AgentInv'
<1> DEFINE u    == client.update
           mine == IF client.mine = NoRow THEN NewSettings(FALSE, u.dry_run, u.max)
                   ELSE [client.mine EXCEPT !.dry_run = u.dry_run, !.max = u.max]
<1>1. /\ client.sure \in BOOLEAN /\ client.mine \in Settings \cup {NoRow} /\ u \in Updates
      /\ client.at = "save" /\ client.asks = "update"
  BY DEF AgentInv, Shapes, ClientOK, SaveUpdate
<1>2. mine \in Settings
  BY <1>1 DEF Settings, NewSettings, Updates
<1>3. mine.enabled => client.mine # NoRow /\ client.mine.enabled
  BY <1>1 DEF Settings, NewSettings
<1>4. /\ row' = mine /\ told' = NoAnswer
      /\ client' = [at |-> "answer", sure |-> client.sure /\ ~Racing]
      /\ UNCHANGED <<schedulers, waiting, locked, run, open, index, faults>>
  BY DEF SaveUpdate, Saved, Proceeds, chainVars
<1> HIDE DEF mine
<1>5. client'.at = "answer" /\ client'.sure = (client.sure /\ ~Racing)
  BY <1>4
<1>6. Shapes' /\ OldRowIsKnown' /\ AcknowledgedSettingsHold' /\ EnabledMeansScheduled'
  BY <1>1, <1>2, <1>4, <1>5, SaveKeeps DEF Writing
<1>7. client'.sure /\ row'.enabled => "regular" \in schedulers'
  BY <1>1, <1>3, <1>4, <1>5 DEF AgentInv, JobFollowsRow, EnabledMeansScheduled
<1>8. JobFollowsRow'
  BY <1>5, <1>7 DEF JobFollowsRow
<1> QED
  BY <1>6, <1>8 DEF AgentInv

LEMMA RegisterKeeps == ASSUME AgentInv, Register PROVE AgentInv'
<1>1. client.at = "register" /\ client.sure \in BOOLEAN /\ client.mine \in Settings
  BY DEF AgentInv, Shapes, ClientOK, Register
<1>2. /\ client'.sure = client.sure
      /\ \/ client'.at = "answer"
         \/ client'.at = "welcome" /\ client'.mine = client.mine
  BY DEF Register, Proceeds
<1>3. /\ schedulers' = schedulers \cup {"regular"} /\ waiting' = TRUE
      /\ UNCHANGED <<row, locked, run, open, index, told, faults>>
  BY DEF Register, Registered, chainVars
<1>4. Shapes'
  BY <1>1, <1>2, <1>3 DEF AgentInv, Shapes, TypeOK, ClientOK, RunOK, Schedulers, Writing
<1>5. OldRowIsKnown' /\ AcknowledgedSettingsHold' /\ EnabledMeansScheduled'
  BY <1>1, <1>2, <1>3 DEF AgentInv, OldRowIsKnown, AcknowledgedSettingsHold, EnabledMeansScheduled,
                          Known, Shown, Writing
<1>6. JobFollowsRow'
  BY <1>2, <1>3 DEF JobFollowsRow
<1> QED
  BY <1>4, <1>5, <1>6 DEF AgentInv

LEMMA WelcomeKeeps == ASSUME AgentInv, Welcome PROVE AgentInv'
<1> DEFINE mine == [client.mine EXCEPT !.welcomed = TRUE]
<1>1. client.sure \in BOOLEAN /\ mine \in Settings
  BY DEF AgentInv, Shapes, ClientOK, Welcome, Settings
<1>2. /\ row' = mine /\ told' = NoAnswer /\ client.at = "welcome"
      /\ client' = [at |-> "answer", sure |-> client.sure /\ ~Racing]
      /\ UNCHANGED <<schedulers, waiting, locked, run, open, index, faults>>
  BY DEF Welcome, Saved, Proceeds, chainVars
<1> HIDE DEF mine
<1>3. client'.at = "answer" /\ client'.sure = (client.sure /\ ~Racing)
  BY <1>2
<1>4. Shapes' /\ OldRowIsKnown' /\ AcknowledgedSettingsHold' /\ EnabledMeansScheduled'
  BY <1>1, <1>2, <1>3, SaveKeeps DEF Writing
<1>5. JobFollowsRow'
  BY <1>2, <1>3 DEF AgentInv, JobFollowsRow
<1> QED
  BY <1>4, <1>5 DEF AgentInv

\* Removing the jobs of a paused agent, whether or not the queue answers.
LEMMA UnregisterKeeps == ASSUME AgentInv, Unregister \/ UnregisterFails PROVE AgentInv'
<1>1. /\ client.at \in {"unregister", "unregister_fast"} /\ client.sure \in BOOLEAN
      /\ client'.sure = client.sure /\ client'.at \in {"unregister_fast", "answer"}
  BY DEF AgentInv, Shapes, ClientOK, Unregister, UnregisterFails, Proceeds
<1>2. /\ schedulers' \subseteq schedulers /\ faults' \in 0..MaxFaults
      /\ UNCHANGED <<row, waiting, locked, run, open, index, told>>
  BY AgentAssumption DEF AgentInv, Shapes, TypeOK, Unregister, UnregisterFails, chainVars
<1>3. Shapes'
  BY <1>1, <1>2 DEF AgentInv, Shapes, TypeOK, ClientOK, RunOK, Writing
<1>4. OldRowIsKnown' /\ AcknowledgedSettingsHold'
  BY <1>1, <1>2 DEF AgentInv, OldRowIsKnown, AcknowledgedSettingsHold, Known, Shown, Writing
<1>5. ~(Known /\ told.enabled)
  BY <1>1, ShownFields DEF AgentInv, JobFollowsRow, AcknowledgedSettingsHold, Known
<1>6. EnabledMeansScheduled'
  BY <1>2, <1>5 DEF EnabledMeansScheduled, Known
<1>7. JobFollowsRow'
  BY <1>1, <1>2 DEF AgentInv, JobFollowsRow
<1> QED
  BY <1>3, <1>4, <1>6, <1>7 DEF AgentInv

LEMMA AnswerKeeps == ASSUME AgentInv, Answer PROVE AgentInv'
<1>1. client.at = "answer" /\ client.sure \in BOOLEAN
  BY DEF AgentInv, Shapes, ClientOK, Answer
<1>2. /\ told' = Shown(client.sure) /\ client' = Quiet
      /\ UNCHANGED <<row, schedulers, waiting, locked, run, open, index, faults>>
  BY DEF Answer, chainVars
<1>3. client'.at = "none"
  BY <1>2 DEF Quiet
<1>4. told' \in Answers /\ (Known' => client.sure = TRUE)
  BY <1>1, <1>2, ShownFields DEF AgentInv, Known
<1>5. Shapes'
  BY <1>2, <1>3, <1>4 DEF AgentInv, Shapes, TypeOK, ClientOK, RunOK, Writing
<1>6. OldRowIsKnown'
  BY <1>1, <1>2, <1>3, <1>4 DEF AgentInv, OldRowIsKnown, Writing
<1>7. AcknowledgedSettingsHold'
  BY <1>2, <1>4 DEF AcknowledgedSettingsHold, Shown
<1>8. EnabledMeansScheduled'
  BY <1>1, <1>2, <1>4, ShownFields DEF AgentInv, JobFollowsRow, EnabledMeansScheduled
<1>9. JobFollowsRow'
  BY <1>3 DEF JobFollowsRow
<1> QED
  BY <1>5, <1>6, <1>7, <1>8, <1>9 DEF AgentInv

LEMMA RequestFailsKeeps == ASSUME AgentInv, RequestFails PROVE AgentInv'
<1>1. /\ client' = Quiet /\ told' = NoAnswer /\ faults' \in 0..MaxFaults
      /\ schedulers' \in {schedulers, schedulers \cup {"regular"}}
      /\ UNCHANGED <<row, waiting, locked, run, open, index>>
  BY AgentAssumption DEF AgentInv, Shapes, TypeOK, RequestFails, chainVars
<1>2. client'.at = "none"
  BY <1>1 DEF Quiet
<1>3. Shapes'
  BY <1>1, <1>2 DEF AgentInv, Shapes, TypeOK, ClientOK, RunOK, Schedulers, Writing
<1>4. OldRowIsKnown' /\ AcknowledgedSettingsHold' /\ EnabledMeansScheduled' /\ JobFollowsRow'
  BY <1>1, <1>2 DEF OldRowIsKnown, AcknowledgedSettingsHold, EnabledMeansScheduled, JobFollowsRow,
                    Known, Writing
<1> QED
  BY <1>3, <1>4 DEF AgentInv

-----------------------------------------------------------------------------
(* The run *)

LEMMA FireKeeps == ASSUME AgentInv, NEW s \in Schedulers, Fire(s) PROVE AgentInv'
<1>1. waiting' = TRUE /\ UNCHANGED <<row, schedulers, locked, run, client, told, open, index, faults>>
  BY DEF Fire, ownerVars, chainVars
<1>2. Shapes'
  BY <1>1 DEF AgentInv, Shapes, TypeOK, ClientOK, RunOK
<1> QED
  BY <1>1, <1>2, NothingSaid DEF AgentInv

\* A stage that leaves what it carries in order keeps the rest in order.
LEMMA StageKeeps ==
  ASSUME AgentInv, RunOK', run'.at # "stamp",
         UNCHANGED <<row, client, told>>, schedulers' \subseteq Schedulers,
         "regular" \in schedulers => "regular" \in schedulers',
         waiting' \in BOOLEAN, locked' \in BOOLEAN,
         open' \in 0..MaxPositions, index' \in 0..MaxPositions, faults' \in 0..MaxFaults
  PROVE  AgentInv'
<1>1. Shapes'
  BY DEF AgentInv, Shapes, TypeOK, ClientOK, RunOK
<1> QED
  BY <1>1, PromisesStand DEF AgentInv

LEMMA TakeKeeps == ASSUME AgentInv, Take PROVE AgentInv'
<1>1. /\ run' = run \/ run' = [at |-> "load"]
      /\ run.at = "idle" /\ waiting' = FALSE /\ locked' \in BOOLEAN
      /\ UNCHANGED <<row, schedulers, client, told, open, index, faults>>
  BY DEF AgentInv, Shapes, TypeOK, Take, Idle, ownerVars, chainVars
<1>2. RunOK' /\ run'.at # "stamp"
  BY <1>1 DEF AgentInv, Shapes, RunOK, Stages
<1> QED
  BY <1>1, <1>2, StageKeeps DEF AgentInv, Shapes, TypeOK

\* A run that begins knows what the owner was told.
LEMMA LoadKeeps == ASSUME AgentInv, Load PROVE AgentInv'
<1>1. UNCHANGED <<row, schedulers, waiting, client, told, open, index, faults>>
  BY DEF Load, ownerVars, chainVars
<1>2. CASE MayRun
  <2>1. /\ run' = [at |-> "stamp", mine |-> row, allowed |-> OwnerLets] /\ locked' = locked
        /\ row \in Settings /\ row # NoRow /\ row.enabled
    BY <1>2 DEF AgentInv, Shapes, TypeOK, Load, MayRun
  <2>2. OwnerLets \in BOOLEAN
    BY DEF OwnerLets
  <2>3. OwnerLets = TRUE \/ row.dry_run = TRUE
    BY <2>1, ShownFields DEF AgentInv, AcknowledgedSettingsHold, OwnerLets, Settings
  <2>4. RunOK'
    BY <1>1, <2>1, <2>2, <2>3 DEF RunOK, Stages
  <2>5. Shapes'
    BY <1>1, <2>1, <2>4 DEF AgentInv, Shapes, TypeOK, ClientOK, RunOK
  <2>6. OldRowIsKnown' /\ AcknowledgedSettingsHold' /\ EnabledMeansScheduled' /\ JobFollowsRow'
    BY <1>1, <2>1 DEF AgentInv, OldRowIsKnown, AcknowledgedSettingsHold, EnabledMeansScheduled,
                      JobFollowsRow, Known, Shown
  <2> QED
    BY <2>5, <2>6 DEF AgentInv
<1>3. CASE ~MayRun
  <2>1. run' = Idle /\ locked' = FALSE
    BY <1>3 DEF Load, Ends
  <2>2. RunOK' /\ run'.at # "stamp"
    BY <2>1 DEF RunOK, Idle
  <2> QED
    BY <1>1, <2>1, <2>2, StageKeeps DEF AgentInv, Shapes, TypeOK
<1> QED
  BY <1>2, <1>3

\* The run saves what it read: either nothing was saved since, or nobody has
\* been told of it.
LEMMA StampKeeps == ASSUME AgentInv, Stamp PROVE AgentInv'
<1>1. /\ run.at = "stamp" /\ row' = run.mine
      /\ run' = [at |-> "check", mine |-> run.mine, allowed |-> run.allowed]
      /\ UNCHANGED <<schedulers, waiting, locked, client, told, open, index, faults>>
  BY DEF Stamp, Goes, ownerVars, chainVars
<1>2. run.mine \in Settings /\ row # NoRow /\ run.mine # NoRow
  BY <1>1, AgentAssumption DEF AgentInv, Shapes, RunOK
<1>3. RunOK'
  BY <1>1, <1>2 DEF AgentInv, Shapes, RunOK, Stages
<1>4. Shapes'
  BY <1>1, <1>2, <1>3 DEF AgentInv, Shapes, TypeOK, ClientOK, RunOK
<1>5. OldRowIsKnown'
  BY <1>1 DEF OldRowIsKnown
<1>6. CASE run.mine = row
  BY <1>1, <1>4, <1>5, <1>6 DEF AgentInv, AcknowledgedSettingsHold, EnabledMeansScheduled,
                                JobFollowsRow, Known, Shown
<1>7. CASE run.mine # row
  <2>1. ~Known /\ (client.at \in Writing => client.sure = FALSE)
    BY <1>1, <1>7 DEF AgentInv, OldRowIsKnown
  <2>2. AcknowledgedSettingsHold' /\ EnabledMeansScheduled'
    BY <1>1, <2>1 DEF AcknowledgedSettingsHold, EnabledMeansScheduled, Known
  <2>3. JobFollowsRow'
    BY <1>1, <1>2, <2>1 DEF AgentInv, JobFollowsRow, Known, Writing
  <2> QED
    BY <1>4, <1>5, <2>2, <2>3 DEF AgentInv
<1> QED
  BY <1>6, <1>7

\* The stages that carry on without looking at anything the owner sees.
LEMMA StagesKeep ==
  ASSUME AgentInv, Check \/ Ready \/ Think \/ ActionsDone
  PROVE  AgentInv'
<1>1. /\ UNCHANGED <<row, schedulers, waiting, locked, client, told, open, index, faults>>
      /\ run.at \in {"check", "ready", "think", "act"}
  BY DEF Check, Ready, Think, ActionsDone, Goes, Finishes, PhaseOver, Acting, ownerVars, chainVars
<1>2. /\ run'.mine = run.mine
      /\ \/ run'.at = "sync"
         \/ run'.at \in {"ready", "think"} /\ run'.allowed = run.allowed
         \/ run'.at = "act" /\ run'.allowed = run.allowed /\ run'.left = MaxActions
  BY DEF Check, Ready, Think, ActionsDone, Goes, Finishes, PhaseOver, Acting
<1>3. RunOK'
  BY <1>1, <1>2, AgentAssumption DEF AgentInv, Shapes, RunOK, Stages
<1> QED
  BY <1>1, <1>2, <1>3, StageKeeps DEF AgentInv, Shapes, TypeOK

LEMMA SubmitsKeeps ==
  ASSUME AgentInv, NEW tx, Submits(tx),
         run.at = "act", run.left > 0, ~run.mine.dry_run
  PROVE  AgentInv'
<1>1. /\ run'.at = "submit" /\ run'.mine = run.mine /\ run'.allowed = run.allowed
      /\ run'.left = run.left - 1 /\ run'.tx = tx
      /\ UNCHANGED <<row, schedulers, waiting, locked, client, told, open, index, faults>>
  BY DEF Submits, ownerVars, chainVars
<1>2. run.left - 1 \in 0..MaxActions
  BY AgentAssumption DEF AgentInv, Shapes, RunOK
<1>3. run.mine.dry_run = FALSE
  BY DEF AgentInv, Shapes, RunOK, Settings
<1>4. RunOK'
  BY <1>1, <1>2, <1>3 DEF AgentInv, Shapes, RunOK, Stages
<1> QED
  BY <1>1, <1>4, StageKeeps DEF AgentInv, Shapes, TypeOK

LEMMA TradeKeeps == ASSUME AgentInv, Open \/ Reduce PROVE AgentInv'
  BY SubmitsKeeps DEF Open, Reduce

LEMMA ExecuteKeeps == ASSUME AgentInv, Execute \/ ExecuteFails PROVE AgentInv'
<1>1. /\ run.at = "submit" /\ run' = Acts /\ open' \in After(run.tx) \cup {open}
      /\ UNCHANGED <<row, schedulers, waiting, locked, client, told, index, faults>>
  BY DEF Execute, ExecuteFails, ownerVars, chainVars
<1>2. run'.at = "act" /\ run'.mine = run.mine /\ run'.allowed = run.allowed /\ run'.left = run.left
  BY <1>1 DEF Acts
<1>3. RunOK'
  BY <1>1, <1>2 DEF AgentInv, Shapes, RunOK, Stages
<1>4. open' \in 0..MaxPositions
  BY <1>1, AgentAssumption DEF AgentInv, Shapes, TypeOK, After
<1> QED
  BY <1>1, <1>2, <1>3, <1>4, StageKeeps DEF AgentInv, Shapes, TypeOK

LEMMA SyncKeeps == ASSUME AgentInv, Sync PROVE AgentInv'
<1>1. /\ run' = Idle /\ locked' = FALSE /\ schedulers' \subseteq schedulers \cup {"fast"}
      /\ "regular" \in schedulers => "regular" \in schedulers'
      /\ UNCHANGED <<row, waiting, client, told, open, index, faults>>
  BY DEF Sync, Ends, ownerVars, chainVars
<1>2. RunOK' /\ run'.at # "stamp"
  BY <1>1 DEF RunOK, Idle
<1> QED
  BY <1>1, <1>2, StageKeeps DEF AgentInv, Shapes, TypeOK, Schedulers

LEMMA RunFailsKeeps == ASSUME AgentInv, RunFails PROVE AgentInv'
<1>1. faults < MaxFaults /\ faults' = faults + 1
      /\ UNCHANGED <<row, schedulers, waiting, client, told, open, index>>
  BY DEF RunFails, ownerVars, chainVars
<1>2. faults' \in 0..MaxFaults
  BY <1>1, AgentAssumption DEF AgentInv, Shapes, TypeOK
<1>3. /\ locked' = FALSE \/ locked' = locked
      /\ \/ run' = Idle
         \/ run' = [at |-> "sync", mine |-> run.mine] /\ run.at \notin {"idle", "load"}
  BY DEF RunFails, Ends, Finishes
<1>4. RunOK' /\ run'.at # "stamp"
  BY <1>1, <1>3 DEF AgentInv, Shapes, RunOK, Idle, Stages
<1> QED
  BY <1>1, <1>2, <1>3, <1>4, StageKeeps DEF AgentInv, Shapes, TypeOK

-----------------------------------------------------------------------------
(* The rest of the world, and the theorem *)

LEMMA WorldKeeps == ASSUME AgentInv, IndexerCatchesUp \/ PositionEnds PROVE AgentInv'
<1>1. UNCHANGED <<row, schedulers, waiting, locked, run, client, told, faults>>
  BY DEF IndexerCatchesUp, PositionEnds, ownerVars
<1>2. open' \in 0..MaxPositions /\ index' \in 0..MaxPositions
  BY AgentAssumption DEF AgentInv, Shapes, TypeOK, IndexerCatchesUp, PositionEnds
<1>3. Shapes'
  BY <1>1, <1>2 DEF AgentInv, Shapes, TypeOK, ClientOK, RunOK
<1> QED
  BY <1>1, <1>3, NothingSaid DEF AgentInv

\* A restart forgets the run and the request; an answer that was given stands.
LEMMA RestartKeeps == ASSUME AgentInv, Restart PROVE AgentInv'
<1>1. /\ run' = Idle /\ client' = Quiet /\ locked' = FALSE /\ faults' \in 0..MaxFaults
      /\ waiting' \in BOOLEAN /\ told' \in {told, NoAnswer}
      /\ schedulers' \in {schedulers, schedulers \cup {"regular"}}
      /\ UNCHANGED <<row, open, index>>
  BY AgentAssumption DEF AgentInv, Shapes, TypeOK, Restart, chainVars
<1>2. run'.at = "idle" /\ client'.at = "none"
  BY <1>1 DEF Idle, Quiet
<1>3. Shapes'
  BY <1>1, <1>2 DEF AgentInv, Shapes, TypeOK, ClientOK, RunOK, Schedulers, Writing
<1>4. OldRowIsKnown' /\ AcknowledgedSettingsHold' /\ EnabledMeansScheduled' /\ JobFollowsRow'
  BY <1>1, <1>2 DEF AgentInv, OldRowIsKnown, AcknowledgedSettingsHold, EnabledMeansScheduled,
                    JobFollowsRow, Known, Shown
<1> QED
  BY <1>3, <1>4 DEF AgentInv

\* The inductive invariant of the agent.
THEOREM AgentIsSound == Spec => []AgentInv
<1>1. Init => AgentInv
  <2> SUFFICES ASSUME Init PROVE AgentInv
    OBVIOUS
  <2>1. run.at = "idle" /\ client.at = "none" /\ ~Known
    BY DEF Init, Idle, Quiet, Known
  <2>2. TypeOK
    <3>1. 0 \in 0..MaxPositions /\ 0 \in 0..MaxFaults
      BY AgentAssumption
    <3> QED
      BY <2>1, <3>1 DEF Init, TypeOK
  <2>3. ClientOK /\ RunOK
    BY <2>1 DEF ClientOK, RunOK, Writing
  <2>4. Shapes
    BY <2>2, <2>3 DEF Shapes
  <2> QED
    BY <2>1, <2>4 DEF AgentInv, OldRowIsKnown, AcknowledgedSettingsHold, EnabledMeansScheduled,
                      JobFollowsRow, Writing
<1>2. AgentInv /\ [Next]_vars => AgentInv'
  <2> SUFFICES ASSUME AgentInv, [Next]_vars PROVE AgentInv'
    OBVIOUS
  <2>1. CASE UNCHANGED vars
    <3>1. UNCHANGED <<row, schedulers, waiting, locked, run, client, open, index, told, faults>>
      BY <2>1 DEF vars
    <3>2. Shapes'
      BY <3>1 DEF AgentInv, Shapes, TypeOK, ClientOK, RunOK
    <3> QED
      BY <3>1, <3>2, NothingSaid DEF AgentInv
  <2>2. ASSUME NEW u \in Updates, NEW asks \in Asks, Request(asks, u) PROVE AgentInv'
    BY <2>2, RequestKeeps
  <2>3. CASE RequestStep
    BY <2>3, SaveEnabledKeeps, SaveDisabledKeeps, SaveUpdateKeeps, RegisterKeeps, WelcomeKeeps,
       UnregisterKeeps, AnswerKeeps, RequestFailsKeeps DEF RequestStep
  <2>4. ASSUME NEW s \in Schedulers, Fire(s) PROVE AgentInv'
    BY <2>4, FireKeeps
  <2>5. CASE RunStep
    BY <2>5, TakeKeeps, LoadKeeps, StampKeeps, StagesKeep, TradeKeeps, ExecuteKeeps, SyncKeeps,
       RunFailsKeeps DEF RunStep
  <2>6. CASE IndexerCatchesUp \/ PositionEnds
    BY <2>6, WorldKeeps
  <2>7. CASE Restart
    BY <2>7, RestartKeeps
  <2> QED
    BY <2>1, <2>2, <2>3, <2>4, <2>5, <2>6, <2>7 DEF Next, Asks
<1> QED
  BY <1>1, <1>2, PTL DEF Spec

-----------------------------------------------------------------------------
(* What it says *)

\* Settings, answers and stages keep their ranges, and no count of positions is
\* negative.
THEOREM AgentTypes == Spec => []TypeOK
<1>1. AgentInv => TypeOK
  BY DEF AgentInv, Shapes
<1> QED
  BY <1>1, AgentIsSound, PTL

\* However many requests, runs and restarts interleave, what an answer told the
\* owner is what the row says, unless a run was between its read and its save.
THEOREM AnswersStand == Spec => []AcknowledgedSettingsHold
<1>1. AgentInv => AcknowledgedSettingsHold
  BY DEF AgentInv
<1> QED
  BY <1>1, AgentIsSound, PTL

\* An owner who was told that the agent is on has a registered job.
THEOREM EnabledAgentsAreScheduled == Spec => []EnabledMeansScheduled
<1>1. AgentInv => EnabledMeansScheduled
  BY DEF AgentInv
<1> QED
  BY <1>1, AgentIsSound, PTL

\* A run that began after the owner was told of a pause or a dry run submits
\* nothing, however many requests, jobs, failures and restarts came between.
THEOREM SettingsBindTheRun == Spec => []NoTradeAgainstSettings
<1>1. AgentInv => NoTradeAgainstSettings
  BY DEF AgentInv, Shapes, RunOK, NoTradeAgainstSettings
<1> QED
  BY <1>1, AgentIsSound, PTL
=============================================================================
