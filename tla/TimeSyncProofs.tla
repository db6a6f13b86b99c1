--------------------------- MODULE TimeSyncProofs ---------------------------
(***************************************************************************)
(* Proofs about TimeSync for every number of waits.                        *)
(***************************************************************************)
EXTENDS TimeSync, Descent, TLAPS

LEMMA AtBootType == AtBoot \in [Tasks -> Steps] /\ AtBoot["sync"] = "off"
  BY DEF AtBoot, Tasks, Steps

\* The sync task waits only while it has waits left, and has them all when main is
\* about to create it.
Waits ==
    /\ at["sync"] = "waiting" => retry_count < retry_count_max
    /\ at["main"] = "called" => at["sync"] = "off" /\ retry_count = 0

TypeInv == TypeOK /\ Waits

LEMMA InitTypeInv == Init => TypeInv
  <1> SUFFICES ASSUME Init PROVE TypeInv
    OBVIOUS
  <1>1. at \in [Tasks -> Steps] /\ at["sync"] = "off"
    BY AtBootType DEF Init
  <1>2. retry_count \in 0 .. retry_count_max
    BY RetryAssumption DEF Init
  <1>3. QED BY <1>1, <1>2 DEF Init, TypeInv, TypeOK, Waits, Status

LEMMA TypeInductive == TypeInv /\ [Next]_vars => TypeInv'
  <1> SUFFICES ASSUME TypeInv, [Next]_vars PROVE TypeInv'
    OBVIOUS
  <1> USE RetryAssumption DEF TypeInv, TypeOK, Waits, Tasks, Steps, Status, Goes, clock, aws
  <1>1. ASSUME NEW t \in Tasks, AnnouncesOther(t) PROVE TypeInv'
    BY <1>1 DEF AnnouncesOther
  <1>2. ASSUME NEW t \in Tasks, AnnouncesCompleted(t) PROVE TypeInv'
    BY <1>2 DEF AnnouncesCompleted, AfterAnnouncing
  <1>3. ASSUME NEW t \in Tasks, CreatesAwsTask(t) PROVE TypeInv'
    BY <1>3 DEF CreatesAwsTask, AfterAnnouncing
  <1>4. CASE AwsTaskEnds
    BY <1>4 DEF AwsTaskEnds
  <1>5. CASE StartFindsValidTime
    BY <1>5 DEF StartFindsValidTime
  <1>6. CASE StartCreatesTask \/ StartMarksProgress
    <2>1. CASE StartMarksProgress
      BY <2>1 DEF StartMarksProgress
    <2>2. CASE StartCreatesTask
      <3>1. at' \in [Tasks -> Steps]
        BY <2>2 DEF StartCreatesTask
      <3>2. UNCHANGED <<status, retry_count, sync_sem, clock_valid, task_aws_iot,
                        aws_iot_tasks, announced>>
        BY <2>2 DEF StartCreatesTask
      <3>3. retry_count < retry_count_max
        BY <2>2 DEF StartCreatesTask
      <3>4. at'["main"] # "called"
        BY <2>2 DEF StartCreatesTask
      <3>5. QED BY <3>1, <3>2, <3>3, <3>4
    <2>3. QED BY <1>6, <2>1, <2>2
  <1>7. CASE CallbackDecides \/ CallbackCompletes
    BY <1>7 DEF CallbackDecides, CallbackCompletes
  <1>8. CASE WaitSucceeds \/ WaitTimesOut
    <2>1. CASE WaitSucceeds
      BY <2>1 DEF WaitSucceeds
    <2>2. CASE WaitTimesOut
      <3>1. at' \in [Tasks -> Steps]
        BY <2>2 DEF WaitTimesOut
      <3>2. retry_count' \in 0 .. retry_count_max
        BY <2>2 DEF WaitTimesOut
      <3>3. at'["sync"] = "waiting" => retry_count' < retry_count_max
        BY <2>2, <3>2 DEF WaitTimesOut
      <3>4. QED BY <2>2, <3>1, <3>2, <3>3 DEF WaitTimesOut
    <2>3. QED BY <1>8, <2>1, <2>2
  <1>9. CASE SyncCompletes \/ SyncFails
    BY <1>9 DEF SyncCompletes, SyncFails
  <1>10. CASE SntpAnswers
    BY <1>10 DEF SntpAnswers
  <1>11. CASE Restart
    <2>1. at' \in [Tasks -> Steps] /\ at'["sync"] = "off"
      BY <1>11, AtBootType DEF Restart
    <2>2. retry_count' \in 0 .. retry_count_max
      BY <1>11 DEF Restart
    <2>3. clock_valid' \in BOOLEAN
      BY <1>11 DEF Restart
    <2>4. QED BY <1>11, <2>1, <2>2, <2>3 DEF Restart
  <1>12. CASE UNCHANGED vars
    BY <1>12 DEF vars
  <1>13. QED
    BY <1>1, <1>2, <1>3, <1>4, <1>5, <1>6, <1>7, <1>8, <1>9, <1>10, <1>11, <1>12
    DEF Next, Operate, MainStep, TcpipStep, SyncStep

\* Every variable keeps its type, and the sync task its number of waits.
THEOREM TypeCorrect == Spec => []TypeOK
  <1>1. TypeInv => TypeOK
    BY DEF TypeInv
  <1>2. QED BY <1>1, InitTypeInv, TypeInductive, PTL DEF Spec

-----------------------------------------------------------------------------
\* Who announces, or is about to announce, COMPLETED knows the time.
Knows ==
    /\ sync_sem => clock_valid
    /\ at["tcpip"] # "off" => clock_valid
    /\ at["sync"] = "decided" => clock_valid
    /\ \A t \in Tasks : at[t] \in {"COMPLETED", "creating"} => clock_valid

IInv == TypeInv /\ Knows /\ AwsNeedsTime

LEMMA InitIInv == Init => IInv
  BY InitTypeInv DEF Init, AtBoot, IInv, Knows, AwsNeedsTime, Tasks

LEMMA StepIInv == IInv /\ [Next]_vars => IInv'
  <1> SUFFICES ASSUME IInv, [Next]_vars PROVE IInv'
    OBVIOUS
  <1>0. TypeInv'
    BY TypeInductive DEF IInv
  <1> USE <1>0, RetryAssumption
      DEF IInv, TypeInv, TypeOK, Knows, AwsNeedsTime, Tasks, Goes, clock, aws
  <1>1. ASSUME NEW t \in Tasks, AnnouncesOther(t) PROVE IInv'
    BY <1>1 DEF AnnouncesOther
  <1>2. ASSUME NEW t \in Tasks, AnnouncesCompleted(t) PROVE IInv'
    <2>1. clock_valid
      BY <1>2 DEF AnnouncesCompleted
    <2>2. clock_valid' /\ UNCHANGED <<retry_count, sync_sem>>
      BY <1>2, <2>1 DEF AnnouncesCompleted
    <2>3. QED BY <2>2
  <1>3. ASSUME NEW t \in Tasks, CreatesAwsTask(t) PROVE IInv'
    <2>1. clock_valid
      BY <1>3 DEF CreatesAwsTask
    <2>2. clock_valid' /\ UNCHANGED <<retry_count, sync_sem>>
      BY <1>3, <2>1 DEF CreatesAwsTask
    <2>3. QED BY <2>2
  <1>4. CASE AwsTaskEnds
    BY <1>4 DEF AwsTaskEnds
  <1>5. CASE StartFindsValidTime
    BY <1>5 DEF StartFindsValidTime
  <1>6. CASE StartCreatesTask
    BY <1>6 DEF StartCreatesTask
  <1>7. CASE StartMarksProgress
    BY <1>7 DEF StartMarksProgress
  <1>8. CASE CallbackDecides \/ CallbackCompletes
    BY <1>8 DEF CallbackDecides, CallbackCompletes
  <1>9. CASE WaitSucceeds \/ WaitTimesOut
    BY <1>9 DEF WaitSucceeds, WaitTimesOut
  <1>10. CASE SyncCompletes \/ SyncFails
    BY <1>10 DEF SyncCompletes, SyncFails
  <1>11. CASE SntpAnswers
    BY <1>11 DEF SntpAnswers
  <1>12. CASE Restart
    BY <1>12 DEF Restart, AtBoot
  <1>13. CASE UNCHANGED vars
    BY <1>13 DEF vars
  <1>14. QED
    BY <1>1, <1>2, <1>3, <1>4, <1>5, <1>6, <1>7, <1>8, <1>9, <1>10, <1>11, <1>12, <1>13
    DEF Next, Operate, MainStep, TcpipStep, SyncStep

\* No AWS IoT task is created before the clock is right, however many waits the
\* sync task makes.
THEOREM AwsNeedsTimeAlways == Spec => []AwsNeedsTime
  <1>1. IInv => AwsNeedsTime
    BY DEF IInv
  <1>2. QED BY <1>1, InitIInv, StepIInv, PTL DEF Spec

-----------------------------------------------------------------------------
(* Who owes the start of AWS IoT. *)

\* t has written COMPLETED and is about to announce it.
Completed(t) == at[t] = "COMPLETED"

Starting(t) == at[t] = "creating" \/ Completed(t)

Promised == task_aws_iot \/ \E t \in Tasks : Starting(t)

\* t is about to write COMPLETED, or to look whether it has to.
Completing(t) ==
    \/ t = "main" /\ at[t] = "called"
    \/ t = "tcpip" /\ at[t] \in {"called", "decided"}
    \/ t = "sync" /\ at[t] = "decided"

\* A status COMPLETED has been announced or will be; a right clock has been noticed or
\* will be.
Owed ==
    /\ status = "COMPLETED" => Promised
    /\ clock_valid => Promised \/ \E t \in Tasks : Completing(t)

OwedInv == TypeInv /\ Owed

LEMMA InitOwedInv == Init => OwedInv
  BY InitTypeInv DEF Init, AtBoot, OwedInv, Owed, Tasks

LEMMA StepOwedInv == OwedInv /\ [Next]_vars => OwedInv'
  <1> SUFFICES ASSUME OwedInv, [Next]_vars PROVE OwedInv'
    OBVIOUS
  <1>0. TypeInv /\ TypeInv'
    BY TypeInductive DEF OwedInv
  <1> USE <1>0, RetryAssumption
      DEF OwedInv, Owed, Promised, Starting, Completed, Completing,
          TypeInv, TypeOK, Waits, Tasks, Goes, clock, aws
  <1>1. ASSUME NEW t \in Tasks, AnnouncesOther(t) PROVE OwedInv'
    BY <1>1 DEF AnnouncesOther
  <1>2. ASSUME NEW t \in Tasks, AnnouncesCompleted(t) PROVE OwedInv'
    BY <1>2 DEF AnnouncesCompleted, AfterAnnouncing
  <1>3. ASSUME NEW t \in Tasks, CreatesAwsTask(t) PROVE OwedInv'
    BY <1>3 DEF CreatesAwsTask, AfterAnnouncing
  <1>4. CASE AwsTaskEnds
    BY <1>4 DEF AwsTaskEnds
  <1>5. CASE StartFindsValidTime
    BY <1>5 DEF StartFindsValidTime
  <1>6. CASE StartCreatesTask
    BY <1>6 DEF StartCreatesTask
  <1>7. CASE StartMarksProgress
    BY <1>7 DEF StartMarksProgress
  <1>8. CASE CallbackDecides
    BY <1>8 DEF CallbackDecides
  <1>9. CASE CallbackCompletes
    BY <1>9 DEF CallbackCompletes
  <1>10. CASE WaitSucceeds
    BY <1>10 DEF WaitSucceeds
  <1>11. CASE WaitTimesOut
    BY <1>11 DEF WaitTimesOut
  <1>12. CASE SyncCompletes
    BY <1>12 DEF SyncCompletes
  <1>13. CASE SyncFails
    BY <1>13 DEF SyncFails
  <1>14. CASE SntpAnswers
    BY <1>14 DEF SntpAnswers
  <1>15. CASE Restart
    BY <1>15 DEF Restart, AtBoot
  <1>16. CASE UNCHANGED vars
    BY <1>16 DEF vars
  <1>17. QED
    BY <1>1, <1>2, <1>3, <1>4, <1>5, <1>6, <1>7, <1>8, <1>9, <1>10, <1>11, <1>12,
       <1>13, <1>14, <1>15, <1>16
    DEF Next, Operate, MainStep, TcpipStep, SyncStep

LEMMA OwedAlways == Spec => []OwedInv
  BY InitOwedInv, StepOwedInv, PTL DEF Spec

\* Every COMPLETED is announced, for every number of waits.
THEOREM RestMeansStartedAlways == Spec => []RestMeansStarted
  <1>1. OwedInv => RestMeansStarted
    BY DEF OwedInv, Owed, Promised, Starting, Completed, Completing, RestMeansStarted,
           AtRest, Tasks, TypeInv, TypeOK
  <1>2. QED BY <1>1, OwedAlways, PTL

-----------------------------------------------------------------------------
(* AWS IoT is started.  TasksNeverStuck is a hypothesis here: TLC checks it, and the   *)
(* provers know nothing of ENABLED.                                                    *)

StepOf(t) ==
    \/ t = "main" /\ MainStep
    \/ t = "tcpip" /\ TcpipStep
    \/ t = "sync" /\ SyncStep

\* While nobody restarts the chip, a task that is ready moves only by its own step.
LEMMA OwnStepOnly ==
    ASSUME TypeInv, [Next]_vars, [~Restart]_vars, NEW t \in Tasks, Ready(t), ~StepOf(t)
    PROVE  at'[t] = at[t]
  <1> USE DEF TypeInv, TypeOK, Waits, Tasks, Steps, Goes, StepOf, Ready, clock, aws
  <1>1. CASE MainStep
    <2>1. ASSUME NEW u \in {"main"}, AnnouncesOther(u) \/ AnnouncesCompleted(u)
                                     \/ CreatesAwsTask(u)
          PROVE  at'["tcpip"] = at["tcpip"] /\ at'["sync"] = at["sync"]
      BY <2>1 DEF AnnouncesOther, AnnouncesCompleted, CreatesAwsTask
    <2>2. QED
      BY <1>1, <2>1 DEF MainStep, StartFindsValidTime, StartCreatesTask, StartMarksProgress
  <1>2. CASE TcpipStep
    BY <1>2 DEF TcpipStep, CallbackDecides, CallbackCompletes, AnnouncesCompleted,
                CreatesAwsTask
  <1>3. CASE SyncStep
    BY <1>3 DEF SyncStep, WaitSucceeds, WaitTimesOut, SyncCompletes, SyncFails,
                AnnouncesOther, AnnouncesCompleted, CreatesAwsTask, AfterAnnouncing
  <1>4. CASE SntpAnswers \/ AwsTaskEnds \/ UNCHANGED vars
    BY <1>4 DEF SntpAnswers, AwsTaskEnds, vars
  <1>5. QED
    BY <1>1, <1>2, <1>3, <1>4 DEF Next, Operate, vars

\* Nothing but a restart takes the start, or the right time, back.
LEMMA OnceIsForGood ==
    ASSUME TypeInv, [Next]_vars, [~Restart]_vars
    PROVE  /\ task_aws_iot => task_aws_iot'
           /\ clock_valid => clock_valid'
  <1> USE DEF TypeInv, TypeOK, clock, aws
  <1>1. ASSUME NEW t \in Tasks, AnnouncesOther(t) \/ AnnouncesCompleted(t) \/ CreatesAwsTask(t)
        PROVE  (task_aws_iot => task_aws_iot') /\ (clock_valid => clock_valid')
    BY <1>1 DEF AnnouncesOther, AnnouncesCompleted, CreatesAwsTask
  <1>2. QED
    BY <1>1 DEF Next, Operate, MainStep, TcpipStep, SyncStep, Tasks, vars, AwsTaskEnds,
        StartFindsValidTime, StartCreatesTask, StartMarksProgress, CallbackDecides,
        CallbackCompletes, WaitSucceeds, WaitTimesOut, SyncCompletes, SyncFails, SntpAnswers

\* What a task about to start AWS IoT does in its own step.
LEMMA StartingStep ==
    ASSUME OwedInv, NEW t \in Tasks, StepOf(t)
    PROVE  /\ at[t] = "creating" => task_aws_iot'
           /\ Completed(t) => task_aws_iot' \/ at'[t] = "creating"
  <1> USE DEF OwedInv, TypeInv, TypeOK, Tasks, Goes, StepOf, MainStep, TcpipStep, SyncStep, aws
  <1>1. CASE at[t] = "creating"
    <2>1. CreatesAwsTask(t)
      BY <1>1
      DEF StartFindsValidTime, StartCreatesTask, StartMarksProgress, CallbackDecides,
          CallbackCompletes, WaitSucceeds, WaitTimesOut, SyncCompletes, SyncFails,
          AnnouncesOther, AnnouncesCompleted
    <2>2. QED BY <1>1, <2>1 DEF CreatesAwsTask, Completed
  <1>2. CASE Completed(t)
    <2>1. AnnouncesCompleted(t)
      BY <1>2
      DEF StartFindsValidTime, StartCreatesTask, StartMarksProgress, CallbackDecides,
          CallbackCompletes, WaitSucceeds, WaitTimesOut, SyncCompletes, SyncFails,
          AnnouncesOther, CreatesAwsTask, Completed
    <2>2. QED BY <1>2, <2>1 DEF AnnouncesCompleted, Completed
  <1>3. QED BY <1>1, <1>2

LEMMA StartingGoesOn ==
    ASSUME OwedInv, [Next]_vars, [~Restart]_vars, NEW t \in Tasks
    PROVE  /\ at[t] = "creating" => at'[t] = "creating" \/ task_aws_iot'
           /\ Completed(t) => Completed(t)' \/ at'[t] = "creating" \/ task_aws_iot'
  <1>1. CASE StepOf(t)
    BY <1>1, StartingStep
  <1>2. CASE ~StepOf(t) /\ Ready(t)
    BY <1>2, OwnStepOnly DEF OwedInv, Completed
  <1>3. QED BY <1>1, <1>2 DEF Ready, Completed

\* What holds from the last restart on.
Running ==
    []OwedInv /\ [][Next]_vars /\ [][~Restart]_vars /\ []TasksNeverStuck /\ Fairness

LEMMA MainStarts == Running => (Starting("main") ~> task_aws_iot)
  <1>1. "main" \in Tasks
    BY DEF Tasks
  <1>2. OwedInv /\ at["main"] = "creating" /\ [Next]_vars /\ [~Restart]_vars
            => (at["main"] = "creating")' \/ task_aws_iot'
    BY <1>1, StartingGoesOn
  <1>3. OwedInv /\ at["main"] = "creating" /\ <<MainStep>>_vars => task_aws_iot'
    BY <1>1, StartingStep DEF StepOf
  <1>4. OwedInv /\ Completed("main") /\ [Next]_vars /\ [~Restart]_vars
            => Completed("main")' \/ (at["main"] = "creating")' \/ task_aws_iot'
    BY <1>1, StartingGoesOn
  <1>5. OwedInv /\ Completed("main") /\ <<MainStep>>_vars
            => (at["main"] = "creating")' \/ task_aws_iot'
    BY <1>1, StartingStep DEF StepOf
  <1>6. TasksNeverStuck /\ (at["main"] = "creating" \/ Completed("main"))
            => ENABLED <<MainStep>>_vars
    BY DEF TasksNeverStuck, Ready, Completed
  <1>7. Starting("main") => at["main"] = "creating" \/ Completed("main")
    BY DEF Starting
  <1>8. QED
    BY <1>2, <1>3, <1>4, <1>5, <1>6, <1>7, PTL DEF Running, Fairness

LEMMA TcpipStarts == Running => (Starting("tcpip") ~> task_aws_iot)
  <1>1. "tcpip" \in Tasks
    BY DEF Tasks
  <1>2. OwedInv /\ at["tcpip"] = "creating" /\ [Next]_vars /\ [~Restart]_vars
            => (at["tcpip"] = "creating")' \/ task_aws_iot'
    BY <1>1, StartingGoesOn
  <1>3. OwedInv /\ at["tcpip"] = "creating" /\ <<TcpipStep>>_vars => task_aws_iot'
    BY <1>1, StartingStep DEF StepOf
  <1>4. OwedInv /\ Completed("tcpip") /\ [Next]_vars /\ [~Restart]_vars
            => Completed("tcpip")' \/ (at["tcpip"] = "creating")' \/ task_aws_iot'
    BY <1>1, StartingGoesOn
  <1>5. OwedInv /\ Completed("tcpip") /\ <<TcpipStep>>_vars
            => (at["tcpip"] = "creating")' \/ task_aws_iot'
    BY <1>1, StartingStep DEF StepOf
  <1>6. TasksNeverStuck /\ (at["tcpip"] = "creating" \/ Completed("tcpip"))
            => ENABLED <<TcpipStep>>_vars
    BY DEF TasksNeverStuck, Ready, Completed
  <1>7. Starting("tcpip") => at["tcpip"] = "creating" \/ Completed("tcpip")
    BY DEF Starting
  <1>8. QED
    BY <1>2, <1>3, <1>4, <1>5, <1>6, <1>7, PTL DEF Running, Fairness

LEMMA SyncStarts == Running => (Starting("sync") ~> task_aws_iot)
  <1>1. "sync" \in Tasks
    BY DEF Tasks
  <1>2. OwedInv /\ at["sync"] = "creating" /\ [Next]_vars /\ [~Restart]_vars
            => (at["sync"] = "creating")' \/ task_aws_iot'
    BY <1>1, StartingGoesOn
  <1>3. OwedInv /\ at["sync"] = "creating" /\ <<SyncStep>>_vars => task_aws_iot'
    BY <1>1, StartingStep DEF StepOf
  <1>4. OwedInv /\ Completed("sync") /\ [Next]_vars /\ [~Restart]_vars
            => Completed("sync")' \/ (at["sync"] = "creating")' \/ task_aws_iot'
    BY <1>1, StartingGoesOn
  <1>5. OwedInv /\ Completed("sync") /\ <<SyncStep>>_vars
            => (at["sync"] = "creating")' \/ task_aws_iot'
    BY <1>1, StartingStep DEF StepOf
  <1>6. TasksNeverStuck /\ (at["sync"] = "creating" \/ Completed("sync"))
            => ENABLED <<SyncStep>>_vars
    BY DEF TasksNeverStuck, Ready, Completed
  <1>7. Starting("sync") => at["sync"] = "creating" \/ Completed("sync")
    BY DEF Starting
  <1>8. QED
    BY <1>2, <1>3, <1>4, <1>5, <1>6, <1>7, PTL DEF Running, Fairness

LEMMA PromisedStarts == Running => (Promised ~> task_aws_iot)
  <1>1. Promised => \/ task_aws_iot
                    \/ Starting("main") \/ Starting("tcpip") \/ Starting("sync")
    BY DEF Promised, Tasks
  <1>2. QED BY <1>1, MainStarts, TcpipStarts, SyncStarts, PTL

\* main at its call with the right time, the callback, and the sync task after an
\* answer come to write COMPLETED, or find it written.
LEMMA CompletingGoesOn ==
    ASSUME OwedInv, [Next]_vars, [~Restart]_vars, clock_valid
    PROVE  /\ at["main"] = "called" =>
                  (at'["main"] = "called" /\ ~MainStep) \/ Promised'
           /\ at["tcpip"] = "called" =>
                  (at'["tcpip"] = "called" /\ ~TcpipStep) \/ at'["tcpip"] = "decided" \/ Promised'
           /\ at["tcpip"] = "decided" =>
                  (at'["tcpip"] = "decided" /\ ~TcpipStep) \/ Promised'
           /\ at["sync"] = "decided" =>
                  (at'["sync"] = "decided" /\ ~SyncStep) \/ Promised'
  <1> USE DEF OwedInv, TypeInv, TypeOK, Waits, Tasks, Steps, Goes, clock, aws
  <1>1. /\ at["main"] = "called" /\ ~MainStep => at'["main"] = "called"
        /\ at["tcpip"] \in {"called", "decided"} /\ ~TcpipStep => at'["tcpip"] = at["tcpip"]
        /\ at["sync"] = "decided" /\ ~SyncStep => at'["sync"] = "decided"
    BY OwnStepOnly DEF Ready, StepOf
  <1>2. ASSUME at["main"] = "called", MainStep PROVE Promised'
    <2>1. StartFindsValidTime
      BY <1>2 DEF MainStep, StartCreatesTask, StartMarksProgress, AnnouncesOther,
                  AnnouncesCompleted, CreatesAwsTask
    <2>2. Completed("main")'
      BY <1>2, <2>1 DEF StartFindsValidTime, Completed
    <2>3. QED BY <2>2 DEF Promised, Starting
  <1>3. ASSUME at["tcpip"] \in {"called", "decided"}, TcpipStep
        PROVE  (at["tcpip"] = "called" /\ at'["tcpip"] = "decided") \/ Promised'
    <2>1. CASE CallbackDecides
      <3>1. status = "COMPLETED" => Promised'
        <4>1. status = "COMPLETED" => Promised
          BY DEF Owed
        <4>2. \A t \in Tasks : Starting(t) => Starting(t)'
          BY <2>1 DEF CallbackDecides, Starting, Completed
        <4>3. task_aws_iot' = task_aws_iot
          BY <2>1 DEF CallbackDecides
        <4>4. QED BY <4>1, <4>2, <4>3 DEF Promised
      <3>2. QED BY <2>1, <3>1 DEF CallbackDecides
    <2>2. CASE CallbackCompletes
      <3>1. Completed("tcpip")'
        BY <2>2 DEF CallbackCompletes, Completed
      <3>2. QED BY <3>1 DEF Promised, Starting
    <2>3. QED
      BY <1>3, <2>1, <2>2 DEF TcpipStep, AnnouncesCompleted, CreatesAwsTask
  <1>4. ASSUME at["sync"] = "decided", SyncStep PROVE Promised'
    <2>1. SyncCompletes
      BY <1>4 DEF SyncStep, WaitSucceeds, WaitTimesOut, SyncFails, AnnouncesOther,
                  AnnouncesCompleted, CreatesAwsTask
    <2>2. Completed("sync")'
      BY <1>4, <2>1 DEF SyncCompletes, Completed, Owed
    <2>3. QED BY <2>2 DEF Promised, Starting
  <1>5. QED BY <1>1, <1>2, <1>3, <1>4

LEMMA TimeIsNoticed == Running => (clock_valid ~> Promised)
  <1>1. OwedInv /\ clock_valid => \/ Promised
                                 \/ at["main"] = "called" \/ at["sync"] = "decided"
                                 \/ at["tcpip"] = "called" \/ at["tcpip"] = "decided"
    BY DEF OwedInv, Owed, Completing
  <1>2. OwedInv /\ clock_valid /\ [Next]_vars /\ [~Restart]_vars => clock_valid'
    BY OnceIsForGood DEF OwedInv
  <1>3. /\ OwedInv /\ clock_valid /\ at["main"] = "called" /\ [Next]_vars /\ [~Restart]_vars
              => (at["main"] = "called")' \/ Promised'
        /\ OwedInv /\ clock_valid /\ at["main"] = "called" /\ [Next]_vars /\ [~Restart]_vars
              /\ <<MainStep>>_vars => Promised'
    BY CompletingGoesOn
  <1>4. /\ OwedInv /\ clock_valid /\ at["tcpip"] = "called" /\ [Next]_vars /\ [~Restart]_vars
              => (at["tcpip"] = "called")' \/ (at["tcpip"] = "decided")' \/ Promised'
        /\ OwedInv /\ clock_valid /\ at["tcpip"] = "called" /\ [Next]_vars /\ [~Restart]_vars
              /\ <<TcpipStep>>_vars => (at["tcpip"] = "decided")' \/ Promised'
    BY CompletingGoesOn
  <1>5. /\ OwedInv /\ clock_valid /\ at["tcpip"] = "decided" /\ [Next]_vars /\ [~Restart]_vars
              => (at["tcpip"] = "decided")' \/ Promised'
        /\ OwedInv /\ clock_valid /\ at["tcpip"] = "decided" /\ [Next]_vars /\ [~Restart]_vars
              /\ <<TcpipStep>>_vars => Promised'
    BY CompletingGoesOn
  <1>6. /\ OwedInv /\ clock_valid /\ at["sync"] = "decided" /\ [Next]_vars /\ [~Restart]_vars
              => (at["sync"] = "decided")' \/ Promised'
        /\ OwedInv /\ clock_valid /\ at["sync"] = "decided" /\ [Next]_vars /\ [~Restart]_vars
              /\ <<SyncStep>>_vars => Promised'
    BY CompletingGoesOn
  <1>7. TasksNeverStuck =>
            /\ at["main"] = "called" => ENABLED <<MainStep>>_vars
            /\ at["tcpip"] = "called" => ENABLED <<TcpipStep>>_vars
            /\ at["tcpip"] = "decided" => ENABLED <<TcpipStep>>_vars
            /\ at["sync"] = "decided" => ENABLED <<SyncStep>>_vars
    BY DEF TasksNeverStuck, Ready
  <1>8. Running => (clock_valid /\ at["main"] = "called" ~> Promised)
    BY <1>2, <1>3, <1>7, PTL DEF Running, Fairness
  <1>9. Running => (clock_valid /\ at["tcpip"] = "decided" ~> Promised)
    BY <1>2, <1>5, <1>7, PTL DEF Running, Fairness
  <1>10. Running => (clock_valid /\ at["tcpip"] = "called" ~> Promised)
    BY <1>2, <1>4, <1>7, <1>9, PTL DEF Running, Fairness
  <1>11. Running => (clock_valid /\ at["sync"] = "decided" ~> Promised)
    BY <1>2, <1>6, <1>7, PTL DEF Running, Fairness
  <1>12. QED BY <1>1, <1>8, <1>9, <1>10, <1>11, PTL DEF Running

\* If the time gets right and restarts come to an end, AWS IoT is started and stays so,
\* for every number of waits.  That the time stays right is not even needed.
THEOREM TimeStartsAwsFairly == Spec /\ []TasksNeverStuck => TimeStartsAws
  <1>1. OwedInv /\ task_aws_iot /\ [Next]_vars /\ [~Restart]_vars => task_aws_iot'
    BY OnceIsForGood DEF OwedInv
  <1>2. Running /\ clock_valid => <>[]task_aws_iot
    BY <1>1, TimeIsNoticed, PromisedStarts, PTL DEF Running
  <1>3. QED
    BY <1>2, OwedAlways, PTL DEF Spec, TimeStartsAws, Running, Fairness

-----------------------------------------------------------------------------
(* The sync task ends. *)

StepsLeft == [called |-> 4, waiting |-> 4, decided |-> 3, expired |-> 3, IN_PROGRESS |-> 2,
              COMPLETED |-> 2, FAILED |-> 2, creating |-> 1, over |-> 0]

\* Its waits and the steps after them; most of all before it has been created.
SyncLeft ==
    IF at["sync"] = "off"
    THEN retry_count_max + 5
    ELSE (IF at["sync"] = "waiting" THEN retry_count_max - retry_count ELSE 0)
         + StepsLeft[at["sync"]]

LEMMA SyncLeftIsNatural == TypeInv => SyncLeft \in Nat
  BY RetryAssumption DEF TypeInv, TypeOK, Tasks, Steps, StepsLeft, SyncLeft

LEMMA SyncDescends ==
    ASSUME TypeInv, SyncStep
    PROVE  SyncLeft' < SyncLeft
  <1> USE RetryAssumption DEF TypeInv, TypeOK, Waits, Tasks, Goes, StepsLeft, SyncLeft
  <1>1. CASE WaitSucceeds
    BY <1>1 DEF WaitSucceeds
  <1>2. CASE WaitTimesOut
    BY <1>2 DEF WaitTimesOut
  <1>3. CASE SyncCompletes \/ SyncFails
    BY <1>3 DEF SyncCompletes, SyncFails
  <1>4. CASE AnnouncesOther("sync")
    BY <1>4 DEF AnnouncesOther
  <1>5. CASE AnnouncesCompleted("sync") \/ CreatesAwsTask("sync")
    BY <1>5 DEF AnnouncesCompleted, CreatesAwsTask, AfterAnnouncing
  <1>6. QED BY <1>1, <1>2, <1>3, <1>4, <1>5 DEF SyncStep

\* Nobody else takes a wait or a step from it, once main has created it.
LEMMA OthersLeaveSync ==
    ASSUME TypeInv, [Next]_vars, [~Restart]_vars, ~SyncStep
    PROVE  \/ at'["sync"] = at["sync"] /\ SyncLeft' = SyncLeft
           \/ SyncLeft' < SyncLeft
  <1> USE RetryAssumption DEF TypeInv, TypeOK, Tasks, Goes, SyncLeft, clock, aws
  <1>1. ASSUME NEW t \in {"main", "tcpip"},
               AnnouncesOther(t) \/ AnnouncesCompleted(t) \/ CreatesAwsTask(t)
        PROVE  at'["sync"] = at["sync"] /\ retry_count' = retry_count
    BY <1>1 DEF AnnouncesOther, AnnouncesCompleted, CreatesAwsTask
  <1>2. CASE StartFindsValidTime \/ StartMarksProgress \/ CallbackDecides \/ CallbackCompletes
    BY <1>2 DEF StartFindsValidTime, StartMarksProgress, CallbackDecides, CallbackCompletes
  <1>3. CASE StartCreatesTask
    <2>1. at["sync"] = "off" /\ at'["sync"] = "waiting" /\ retry_count' = 0
      BY <1>3 DEF StartCreatesTask, Waits
    <2>2. QED BY <2>1 DEF StepsLeft
  <1>4. CASE SntpAnswers \/ AwsTaskEnds \/ UNCHANGED vars
    BY <1>4 DEF SntpAnswers, AwsTaskEnds, vars
  <1>5. QED
    BY <1>1, <1>2, <1>3, <1>4 DEF Next, Operate, MainStep, TcpipStep, vars

\* time_sync_task ends, for every number of waits and whatever the network does.
THEOREM SyncTaskEndsFairly ==
    Spec /\ []TasksNeverStuck /\ StopsFalling(SyncLeft, vars) => SyncTaskEnds
  <1> DEFINE Ended == at["sync"] \in {"off", "over"}
             m == SyncLeft
  <1>1. Spec => []TypeInv
    BY InitTypeInv, TypeInductive, PTL DEF Spec
  <1>2. TypeInv => m \in Nat
    BY SyncLeftIsNatural
  <1>3. TypeInv /\ m \in Nat /\ (m \in Nat)' /\ [Next]_vars /\ [~Restart]_vars => [m' <= m]_vars
    <2>1. SUFFICES ASSUME TypeInv, m \in Nat, m' \in Nat, [Next]_vars, [~Restart]_vars
                   PROVE  m' <= m
      OBVIOUS
    <2>2. m' < m \/ m' = m
      BY <2>1, SyncDescends, OthersLeaveSync
    <2>3. QED BY <2>1, <2>2
  <1>4. TypeInv /\ m \in Nat /\ (m \in Nat)' /\ <<SyncStep>>_vars => ~[m' = m]_vars
    <2>1. SUFFICES ASSUME TypeInv, m \in Nat, m' \in Nat, <<SyncStep>>_vars PROVE m' # m
      OBVIOUS
    <2>2. m' < m
      BY <2>1, SyncDescends
    <2>3. QED BY <2>1, <2>2
  <1>5. TypeInv /\ m \in Nat /\ (m \in Nat)' /\ Ended /\ [Next]_vars /\ [~Restart]_vars
            /\ [m' = m]_vars => Ended'
    <2>1. SUFFICES ASSUME TypeInv, m \in Nat, m' \in Nat, Ended, [Next]_vars, [~Restart]_vars,
                          [m' = m]_vars
                   PROVE  Ended'
      OBVIOUS
    <2>2. CASE UNCHANGED vars
      BY <2>1, <2>2 DEF vars
    <2>3. CASE m' = m
      <3>1. ~(m' < m)
        BY <2>1, <2>3
      <3>2. at'["sync"] = at["sync"]
        BY <2>1, <3>1, SyncDescends, OthersLeaveSync
      <3>3. QED BY <2>1, <3>2
    <2>4. QED BY <2>1, <2>2, <2>3
  <1>6. TasksNeverStuck /\ ~Ended => ENABLED <<SyncStep>>_vars
    BY DEF TasksNeverStuck, Ready
  <1>7. SyncTaskEnds <=> (<>[][~Restart]_vars => <>[]Ended)
    BY DEF SyncTaskEnds
  <1>8. StopsFalling(SyncLeft, vars) <=> StopsFalling(m, vars)
    OBVIOUS
  <1> HIDE DEF Ended, m
  <1>9. QED
    BY <1>1, <1>2, <1>3, <1>4, <1>5, <1>6, <1>7, <1>8, PTL DEF Spec, Fairness, StopsFalling
=============================================================================
