--------------------------- MODULE ManagerProofs ---------------------------
(***************************************************************************)
(* Safety of the manager page on its runtime, for any number of mounts,    *)
(* any values and any bounds.                                              *)
(***************************************************************************)
EXTENDS ManagerPage, TLAPS

\* A reading of a setting or of the messages, and the answer to a request.
Reading == [run : Nat, now : Nat, value : Nat]
Answer == {NoAnswer} \cup Reading

ViewRecord ==
  [runId : Nat, initialized : BOOLEAN, generation : Nat, stale : BOOLEAN,
   shown : [Kinds -> Reading], messages : Reading,
   input : [Kinds -> Nat], dirty : [Kinds -> BOOLEAN], saving : [Kinds -> BOOLEAN]]

PollRecord == [phase : {"none", "sent"}, started : Nat, reads : [Reads -> Answer]]

WritePhases == {"none", "sent", "commanded", "answered", "lost"}
WriteRecord == [phase : WritePhases, value : Nat, at : Nat, answer : Answer]

ServerRecord == [run : Nat, now : Nat, count : Nat, speed : Nat]

RuntimeType ==
  /\ root \in [mounted : BOOLEAN, nodes : Mounts \cup {Pristine}]
  /\ phase \in [Mounts -> {"unborn", "live", "destroyed"}]
  /\ timers \in [Mounts -> Nat]
  /\ cleanups \in [Mounts -> SUBSET Roles]

PageType ==
  /\ server \in ServerRecord
  /\ view \in [Mounts -> ViewRecord]
  /\ poll \in [Mounts -> PollRecord]
  /\ writes \in [Mounts -> [Kinds -> WriteRecord]]
  /\ \A m \in Mounts, k \in Kinds :
       writes[m][k].phase = "answered" => writes[m][k].answer \in Reading

\* A mount that was never made has no timer, no cleanup and no poll and shows
\* nothing, and a poll never outruns the generation, which destroy and a failed
\* start advance.
Unborn(m) == phase[m] = "unborn"

UnbornIdle == \A m \in Mounts : Unborn(m) => timers[m] = 0 /\ cleanups[m] = {}

PollBehind(m) ==
  /\ Unborn(m) => poll[m] = NoPoll /\ view[m] = NewView
  /\ poll[m].started <= view[m].generation
  /\ Destroyed(m) => poll[m].started < view[m].generation

PollsBehind == \A m \in Mounts : PollBehind(m)

\* OneRun for one view.
ViewOfOneRun(v) ==
  /\ v.messages.run = v.runId
  /\ \A k \in Kinds : v.shown[k].run = v.runId

\* A command that has returned still shows in the simulator, or is overtaken.
CommandsKept ==
  \A m \in Mounts, k \in Kinds :
    LET w == writes[m][k]
    IN w.phase = "commanded" =>
         /\ w.at <= server.now
         /\ server[k] # w.value => w.at < server.now

RuntimeInv == RuntimeType /\ MountsExclusive /\ UnbornIdle
WritesInv == CommandsKept /\ AnswerFollowsCommand

PageInv == RuntimeInv /\ PageType /\ PollsBehind /\ OneRun /\ WritesInv

-----------------------------------------------------------------------------
(***************************************************************************)
(* Types                                                                   *)
(***************************************************************************)
\* The data of no request, and what a read gives.
LEMMA Constants ==
  /\ NoPoll \in PollRecord /\ NoWrite \in WriteRecord /\ NewView \in ViewRecord
  /\ NoPoll.phase = "none" /\ NoPoll.started = 0
  /\ NewView.generation = 0 /\ NewView.initialized = FALSE
  /\ NoWrite.phase = "none"
  /\ Pristine \notin Mounts
  /\ Kinds = {"count", "speed"}
  /\ Mounts \subseteq Nat
BY RuntimeAssumption
DEF NoPoll, NoWrite, NewView, PollRecord, WriteRecord, ViewRecord, WritePhases, Answer, NoAnswer,
    Nothing, Reading, Reads, Kinds, Pristine, Mounts

LEMMA ReadingType ==
  ASSUME server \in ServerRecord
  PROVE  /\ \A k \in Kinds : Shown(k, server) \in Reading
         /\ \A r \in Reads : Response(r) \in Reading
BY DEF ServerRecord, Shown, Reading, Response, Reads, Kinds

LEMMA NewRunType == ASSUME NEW run \in Nat PROVE NewRun(run) \in ServerRecord
BY ManagerAssumption DEF NewRun, ServerRecord, Kinds

\* The steps of the simulator keep the types.
LEMMA CommandType ==
  ASSUME server \in ServerRecord, NEW k \in Kinds, NEW value \in Nat, Command(k, value)
  PROVE  /\ server' \in ServerRecord
         /\ server'.now = server.now + 1
         /\ server'[k] = value
<1> server.now + 1 \in Nat
  BY DEF ServerRecord
<1>1. CASE k = "count"
  <2>1. server' = [server EXCEPT !.now = server.now + 1, !.count = value]
    BY <1>1 DEF Command
  <2>2. /\ server' \in ServerRecord
        /\ server'.now = server.now + 1
        /\ server'.count = value
    BY <2>1 DEF ServerRecord
  <2> QED BY <1>1, <2>2
<1>2. CASE k = "speed"
  <2>1. server' = [server EXCEPT !.now = server.now + 1, !.speed = value]
    BY <1>2 DEF Command
  <2>2. /\ server' \in ServerRecord
        /\ server'.now = server.now + 1
        /\ server'.speed = value
    BY <2>1 DEF ServerRecord
  <2> QED BY <1>2, <2>2
<1> QED BY <1>1, <1>2 DEF Kinds

\* What the page makes of an answer is a view.
LEMMA ConfirmType ==
  ASSUME NEW v \in ViewRecord, NEW k \in Kinds, NEW s \in Reading
  PROVE  Confirm(v, k, s) \in ViewRecord
BY DEF Confirm, ViewRecord, Reading

LEMMA EndWriteType ==
  ASSUME NEW v \in ViewRecord, NEW k \in Kinds
  PROVE  /\ EndWrite(v, k) \in ViewRecord
         /\ EndWrite(v, k).generation = v.generation + 1
<1>1. [v.saving EXCEPT ![k] = FALSE] \in [Kinds -> BOOLEAN]
  BY Zenon DEF ViewRecord
<1>2. v.generation + 1 \in Nat
  BY DEF ViewRecord
<1>3. EndWrite(v, k) = [v EXCEPT !.saving = [v.saving EXCEPT ![k] = FALSE],
                                 !.generation = v.generation + 1]
  BY Zenon DEF EndWrite, ViewRecord
<1> QED BY <1>1, <1>2, <1>3 DEF ViewRecord

LEMMA AcceptType ==
  ASSUME NEW v \in ViewRecord, NEW reads \in [Reads -> Reading], NEW focused
  PROVE  /\ Accept(v, reads, focused) \in ViewRecord
         /\ Accept(v, reads, focused).generation = v.generation
         /\ SameRun(reads) =>
              /\ Accept(v, reads, focused).messages.run = Accept(v, reads, focused).runId
              /\ \A k \in Kinds :
                   Accept(v, reads, focused).shown[k].run = Accept(v, reads, focused).runId
<1> DEFINE now == [k \in Kinds |-> IF k = "count" THEN reads["vessels"] ELSE reads["metadata"]]
<1>1. now \in [Kinds -> Reading]
  BY DEF Reads
<1>2. reads["metadata"].run \in Nat /\ reads["messages"] \in Reading
  BY DEF Reads, Reading
<1>3. \A k \in Kinds : now[k].value \in Nat
  BY <1>1 DEF Reading
<1>4. SameRun(reads) =>
        /\ reads["messages"].run = reads["metadata"].run
        /\ \A k \in Kinds : now[k].run = reads["metadata"].run
  BY DEF SameRun, Reads
<1> DEFINE newRun == reads["metadata"].run # v.runId
           follows(k) == ~v.dirty[k] /\ ~v.saving[k] /\ k # focused
           dirty == [k \in Kinds |-> v.dirty[k] /\ ~newRun]
           input == [k \in Kinds |-> IF newRun \/ follows(k) THEN now[k].value ELSE v.input[k]]
<1>6. dirty \in [Kinds -> BOOLEAN]
  BY Zenon
<1>7. input \in [Kinds -> Nat]
  BY <1>3 DEF ViewRecord
<1>8. Accept(v, reads, focused) =
        [v EXCEPT !.runId = reads["metadata"].run,
                  !.initialized = TRUE,
                  !.stale = FALSE,
                  !.dirty = dirty,
                  !.input = input,
                  !.shown = now,
                  !.messages = reads["messages"]]
  BY Zenon DEF Accept, ViewRecord
<1> HIDE DEF now, dirty, input
<1>9. Accept(v, reads, focused) \in ViewRecord
  BY <1>1, <1>2, <1>6, <1>7, <1>8 DEF ViewRecord
<1> QED BY <1>4, <1>8, <1>9 DEF ViewRecord

-----------------------------------------------------------------------------
(***************************************************************************)
(* The runtime                                                             *)
(***************************************************************************)
LEMMA ClaimStep ==
  ASSUME RuntimeInv, NEW m \in Mounts, Claim(m)
  PROVE  RuntimeInv'
<1>1. /\ RuntimeType'
      /\ \A n \in Mounts : ~Live(n)
  BY DEF RuntimeInv, RuntimeType, MountsExclusive, Claim, Claimable
<1>2. Mounts \subseteq Nat /\ Pristine \notin Mounts
  BY Constants
<1>3. MountsExclusive'
  BY <1>1, <1>2
  DEF RuntimeInv, RuntimeType, MountsExclusive, Claim, Claimable, Live, Destroyed
<1>4. UnbornIdle'
  BY DEF RuntimeInv, RuntimeType, UnbornIdle, Unborn, Claim
<1> QED BY <1>1, <1>3, <1>4 DEF RuntimeInv

LEMMA ClaimFailsStep ==
  ASSUME RuntimeInv, NEW m \in Mounts, ClaimFails(m)
  PROVE  RuntimeInv'
<1>1. /\ RuntimeType'
      /\ \A n \in Mounts : ~Live(n)
  BY DEF RuntimeInv, RuntimeType, MountsExclusive, ClaimFails, Claimable
<1>2. Pristine \notin Mounts
  BY Constants
<1>3. MountsExclusive'
  BY <1>1, <1>2
  DEF RuntimeInv, RuntimeType, MountsExclusive, UnbornIdle, Unborn, ClaimFails, Claimable,
      Live, Destroyed
<1>4. UnbornIdle'
  BY DEF RuntimeInv, RuntimeType, UnbornIdle, Unborn, ClaimFails
<1> QED BY <1>1, <1>3, <1>4 DEF RuntimeInv

LEMMA DestroyStep ==
  ASSUME RuntimeInv, NEW m \in Mounts, Destroy(m)
  PROVE  RuntimeInv'
<1>1. /\ RuntimeType'
      /\ \A n \in Mounts : n # m => ~Live(n)
  BY DEF RuntimeInv, RuntimeType, MountsExclusive, Destroy
<1>2. Pristine \notin Mounts
  BY Constants
<1>3. MountsExclusive'
  BY <1>1, <1>2 DEF RuntimeInv, RuntimeType, MountsExclusive, Destroy, Live, Destroyed
<1>4. UnbornIdle'
  BY DEF RuntimeInv, RuntimeType, UnbornIdle, Unborn, Destroy
<1> QED BY <1>1, <1>3, <1>4 DEF RuntimeInv

\* A mount arms a timer only after it was made.
LEMMA LaterStep ==
  ASSUME RuntimeInv, NEW m \in Mounts, ~Unborn(m), Later(m)
  PROVE  RuntimeInv'
<1>1. RuntimeType'
  BY DEF RuntimeInv, RuntimeType, Later
<1>2. \A n \in Mounts : timers'[n] # timers[n] => ~Unborn(n) /\ ~Destroyed(n)
  BY DEF RuntimeInv, RuntimeType, Later
<1>3. MountsExclusive' /\ UnbornIdle'
  BY <1>2 DEF RuntimeInv, MountsExclusive, UnbornIdle, Unborn, Later, Live, Destroyed
<1> QED BY <1>1, <1>3 DEF RuntimeInv

\* Only a live mount has a timer.
LEMMA FiresStep ==
  ASSUME RuntimeInv, NEW m \in Mounts, Fires(m)
  PROVE  RuntimeInv' /\ Live(m)
<1>1. Live(m)
  <2>1. timers[m] # 0
    BY DEF Fires
  <2>2. ~Unborn(m) /\ ~Destroyed(m)
    BY <2>1 DEF RuntimeInv, MountsExclusive, UnbornIdle
  <2>3. phase[m] \in {"unborn", "live", "destroyed"}
    BY DEF RuntimeInv, RuntimeType
  <2> QED BY <2>2, <2>3 DEF Unborn, Live, Destroyed
<1>2. RuntimeType'
  BY DEF RuntimeInv, RuntimeType, Fires
<1>3. \A n \in Mounts : timers'[n] # timers[n] => ~Unborn(n) /\ ~Destroyed(n)
  BY <1>1 DEF RuntimeInv, RuntimeType, Fires, Unborn, Live, Destroyed
<1>4. MountsExclusive' /\ UnbornIdle'
  BY <1>3 DEF RuntimeInv, MountsExclusive, UnbornIdle, Unborn, Fires, Live, Destroyed
<1> QED BY <1>1, <1>2, <1>4 DEF RuntimeInv

LEMMA RuntimeFrame ==
  ASSUME RuntimeInv, UNCHANGED runtimeVars
  PROVE  RuntimeInv'
BY DEF RuntimeInv, RuntimeType, MountsExclusive, UnbornIdle, Unborn, Live, Destroyed, runtimeVars

-----------------------------------------------------------------------------
(***************************************************************************)
(* What a step of one mount leaves alone                                   *)
(***************************************************************************)
LEMMA MountStep ==
  ASSUME PollsBehind, OneRun, NEW m \in Mounts,
         \A n \in Mounts : n # m =>
           phase'[n] = phase[n] /\ view'[n] = view[n] /\ poll'[n] = poll[n],
         PollBehind(m)',
         (Live(m) /\ view[m].initialized => ViewOfOneRun(view[m]))'
  PROVE  PollsBehind' /\ OneRun'
<1>1. PollsBehind'
  BY DEF PollsBehind, PollBehind, Unborn, Destroyed
<1>2. OneRun'
  BY DEF OneRun, ViewOfOneRun, Live
<1> QED BY <1>1, <1>2

LEMMA WritesFrame ==
  ASSUME WritesInv, UNCHANGED <<server, writes>>
  PROVE  WritesInv'
BY DEF WritesInv, CommandsKept, AnswerFollowsCommand

\* A step of one write.
LEMMA WriteStepType ==
  ASSUME PageType, NEW m \in Mounts, NEW k \in Kinds, NEW w \in WriteRecord,
         w.phase = "answered" => w.answer \in Reading,
         writes' = [writes EXCEPT ![m][k] = w]
  PROVE  /\ writes' \in [Mounts -> [Kinds -> WriteRecord]]
         /\ \A n \in Mounts, j \in Kinds :
              writes'[n][j] = IF n = m /\ j = k THEN w ELSE writes[n][j]
         /\ \A n \in Mounts, j \in Kinds :
              writes'[n][j].phase = "answered" => writes'[n][j].answer \in Reading
<1>1. \A n \in Mounts, j \in Kinds :
        writes'[n][j] = IF n = m /\ j = k THEN w ELSE writes[n][j]
  BY Zenon DEF PageType
<1>2. writes' \in [Mounts -> [Kinds -> WriteRecord]]
  BY DEF PageType
<1> QED BY <1>1, <1>2 DEF PageType

\* A write that begins, ends or was given up asserts nothing.
LEMMA WriteStepInv ==
  ASSUME PageType, WritesInv, NEW m \in Mounts, NEW k \in Kinds, NEW w \in WriteRecord,
         w.phase \in {"none", "sent", "lost"},
         writes' = [writes EXCEPT ![m][k] = w],
         UNCHANGED server
  PROVE  WritesInv'
<1>1. \A n \in Mounts, j \in Kinds :
        writes'[n][j] = IF n = m /\ j = k THEN w ELSE writes[n][j]
  BY WriteStepType
<1> QED BY <1>1 DEF WritesInv, CommandsKept, AnswerFollowsCommand

\* A step of one poll.
LEMMA SentPoll ==
  ASSUME NEW g \in Nat
  PROVE  LET p == [NoPoll EXCEPT !.phase = "sent", !.started = g]
         IN p \in PollRecord /\ p.phase = "sent" /\ p.started = g
BY Constants DEF PollRecord

LEMMA ReadPoll ==
  ASSUME NEW p \in PollRecord, NEW r \in Reads, NEW a \in Reading
  PROVE  LET q == [p EXCEPT !.reads[r] = a]
         IN q \in PollRecord /\ q.started = p.started
<1>1. [p.reads EXCEPT ![r] = a] \in [Reads -> Answer]
  BY DEF PollRecord, Answer
<1> QED BY <1>1 DEF PollRecord

\* destroy and a failed start, whose poll was never sent or is behind.
LEMMA EndedStep ==
  ASSUME PageType, NEW m \in Mounts, NEW g \in Nat, NEW started \in BOOLEAN,
         poll[m].started < g, Ended(m, g, started)
  PROVE  /\ view' \in [Mounts -> ViewRecord]
         /\ poll' \in [Mounts -> PollRecord]
         /\ \A n \in Mounts : n # m => view'[n] = view[n] /\ poll'[n] = poll[n]
         /\ poll'[m].started < view'[m].generation
<1> DEFINE v == [NewView EXCEPT !.generation = g]
           answers == [r \in Reads |-> Response(r)]
           p == [poll[m] EXCEPT !.phase = "sent", !.reads = answers]
<1>1. v \in ViewRecord /\ v.generation = g
  BY Constants DEF ViewRecord
<1>2. answers \in [Reads -> Answer]
  BY ReadingType DEF PageType, Answer
<1>3. p \in PollRecord /\ p.started = poll[m].started
  BY <1>2 DEF PageType, PollRecord
<1>4. view' = [view EXCEPT ![m] = v]
  BY DEF Ended
<1>5. poll' = [poll EXCEPT ![m] = p] \/ poll' = poll
  BY DEF Ended, PageType
<1> HIDE DEF v, p, answers
<1> QED BY <1>1, <1>3, <1>4, <1>5 DEF PageType

-----------------------------------------------------------------------------
(***************************************************************************)
(* The steps of the simulator                                              *)
(***************************************************************************)
\* Any command that settles the time later than every command before it.
LEMMA CommandStep ==
  ASSUME PageInv, NEW k \in Kinds, NEW value \in Nat, Command(k, value), UNCHANGED writes
  PROVE  server' \in ServerRecord /\ WritesInv'
<1>1. /\ server' \in ServerRecord /\ server.now \in Nat
      /\ server'.now = server.now + 1
  BY CommandType DEF PageInv, PageType, ServerRecord
<1>2. \A m \in Mounts, j \in Kinds : writes[m][j].at \in Nat
  BY DEF PageInv, PageType, WriteRecord
<1>3. WritesInv'
  BY <1>1, <1>2 DEF PageInv, WritesInv, CommandsKept, AnswerFollowsCommand
<1> QED BY <1>1, <1>3

LEMMA OtherCommandsStep ==
  ASSUME PageInv, NEW k \in Kinds, NEW value \in Values[k], OtherCommands(k, value)
  PROVE  PageInv'
<1>1. value \in Nat
  BY ManagerAssumption
<1>2. server' \in ServerRecord /\ WritesInv'
  BY <1>1, CommandStep DEF OtherCommands, pageVars
<1>3. RuntimeInv'
  BY RuntimeFrame DEF PageInv, OtherCommands
<1>4. PageType' /\ PollsBehind' /\ OneRun'
  BY <1>2
  DEF PageInv, PageType, PollsBehind, PollBehind, OneRun, OtherCommands, pageVars, runtimeVars,
      Live, Destroyed, Unborn
<1> QED BY <1>2, <1>3, <1>4 DEF PageInv

LEMMA RestartStep ==
  ASSUME PageInv, Restart
  PROVE  PageInv'
<1> DEFINE lost == [NoWrite EXCEPT !.phase = "lost"]
<1>1. server' \in ServerRecord
  BY NewRunType DEF PageInv, PageType, ServerRecord, Restart
<1>2. lost \in WriteRecord /\ lost.phase = "lost"
  BY Constants DEF WriteRecord, WritePhases
<1>3. \A m \in Mounts, k \in Kinds :
        writes'[m][k] = IF writes[m][k].phase = "commanded" THEN lost ELSE writes[m][k]
  BY DEF Restart
<1> HIDE DEF lost
<1>4. writes' \in [Mounts -> [Kinds -> WriteRecord]]
  BY <1>2 DEF PageInv, PageType, Restart, lost
<1>5. \A m \in Mounts, k \in Kinds :
        writes'[m][k].phase # "commanded" /\ (writes'[m][k].phase = "answered" =>
          writes'[m][k] = writes[m][k])
  BY <1>2, <1>3
<1>6. WritesInv'
  BY <1>5 DEF PageInv, WritesInv, CommandsKept, AnswerFollowsCommand
<1>7. RuntimeInv'
  BY RuntimeFrame DEF PageInv, Restart
<1>8. PageType'
  BY <1>1, <1>4, <1>5 DEF PageInv, PageType, Restart
<1>9. PollsBehind' /\ OneRun'
  BY DEF PageInv, PollsBehind, PollBehind, OneRun, Restart, runtimeVars, Live, Destroyed, Unborn
<1> QED BY <1>6, <1>7, <1>8, <1>9 DEF PageInv

\* Steps that change the server or the writes only.
LEMMA PageFrame ==
  ASSUME PageInv, UNCHANGED <<runtimeVars, view, poll>>
  PROVE  /\ RuntimeInv' /\ PollsBehind' /\ OneRun'
         /\ view' \in [Mounts -> ViewRecord] /\ poll' \in [Mounts -> PollRecord]
<1>1. RuntimeInv'
  BY RuntimeFrame DEF PageInv
<1>2. PollsBehind' /\ OneRun'
  BY DEF PageInv, PollsBehind, PollBehind, OneRun, runtimeVars, Live, Destroyed, Unborn
<1> QED BY <1>1, <1>2 DEF PageInv, PageType

LEMMA WriteCommandsStep ==
  ASSUME PageInv, NEW m \in Mounts, NEW k \in Kinds, WriteCommands(m, k)
  PROVE  PageInv'
<1> DEFINE old == writes[m][k]
           w == [old EXCEPT !.phase = "commanded", !.at = server'.now]
<1>1. old \in WriteRecord /\ old.value \in Nat
  BY DEF PageInv, PageType, WriteRecord
<1>2. /\ server' \in ServerRecord /\ server.now \in Nat
      /\ server'.now = server.now + 1 /\ server'[k] = old.value
  BY <1>1, CommandType DEF PageInv, PageType, ServerRecord, WriteCommands
<1> server'.now \in Nat
  BY <1>2
<1>3. /\ w \in WriteRecord
      /\ w.phase = "commanded" /\ w.at = server'.now /\ w.value = old.value
  BY <1>1, <1>2 DEF WriteRecord, WritePhases
<1>4. writes' = [writes EXCEPT ![m][k] = w]
  BY DEF WriteCommands, PageInv, PageType
<1> HIDE DEF w, old
<1>5. /\ writes' \in [Mounts -> [Kinds -> WriteRecord]]
      /\ \A n \in Mounts, j \in Kinds :
           writes'[n][j] = IF n = m /\ j = k THEN w ELSE writes[n][j]
      /\ \A n \in Mounts, j \in Kinds :
           writes'[n][j].phase = "answered" => writes'[n][j].answer \in Reading
  BY <1>3, <1>4, WriteStepType DEF PageInv
<1>6. \A n \in Mounts, j \in Kinds : writes[n][j].at \in Nat
  BY DEF PageInv, PageType, WriteRecord
<1>7. CommandsKept'
  <2> SUFFICES ASSUME NEW n \in Mounts, NEW j \in Kinds, writes'[n][j].phase = "commanded"
               PROVE  /\ writes'[n][j].at <= server'.now
                      /\ server'[j] # writes'[n][j].value => writes'[n][j].at < server'.now
    BY DEF CommandsKept
  <2>1. CASE n = m /\ j = k
    BY <1>2, <1>3, <1>5, <2>1
  <2>2. CASE ~(n = m /\ j = k)
    BY <1>2, <1>5, <1>6, <2>2 DEF PageInv, WritesInv, CommandsKept
  <2> QED BY <2>1, <2>2
<1>8. AnswerFollowsCommand'
  BY <1>3, <1>5 DEF PageInv, WritesInv, AnswerFollowsCommand
<1>9. PageType' /\ RuntimeInv' /\ PollsBehind' /\ OneRun'
  BY <1>2, <1>5, PageFrame DEF PageType, WriteCommands
<1> QED BY <1>7, <1>8, <1>9 DEF PageInv, WritesInv

LEMMA WriteAnsweredStep ==
  ASSUME PageInv, NEW m \in Mounts, NEW k \in Kinds, WriteAnswered(m, k)
  PROVE  PageInv'
<1> DEFINE old == writes[m][k]
           w == [old EXCEPT !.phase = "answered", !.answer = Shown(k, server)]
<1>1. old \in WriteRecord /\ old.phase = "commanded"
  BY DEF PageInv, PageType, WriteAnswered
<1>2. /\ Shown(k, server) \in Reading
      /\ Shown(k, server).now = server.now /\ Shown(k, server).value = server[k]
  BY ReadingType DEF PageInv, PageType, Shown
<1>3. /\ w \in WriteRecord
      /\ w.phase = "answered" /\ w.at = old.at /\ w.value = old.value
      /\ w.answer = Shown(k, server)
  BY <1>1, <1>2 DEF WriteRecord, WritePhases, Answer
<1>4. writes' = [writes EXCEPT ![m][k] = w]
  BY DEF WriteAnswered, PageInv, PageType
<1>5. /\ old.at <= server.now
      /\ server[k] # old.value => old.at < server.now
      /\ old.at \in Nat /\ server.now \in Nat
  BY <1>1 DEF PageInv, PageType, WritesInv, CommandsKept, WriteRecord, ServerRecord
<1> HIDE DEF w, old
<1>6. /\ writes' \in [Mounts -> [Kinds -> WriteRecord]]
      /\ \A n \in Mounts, j \in Kinds :
           writes'[n][j] = IF n = m /\ j = k THEN w ELSE writes[n][j]
      /\ \A n \in Mounts, j \in Kinds :
           writes'[n][j].phase = "answered" => writes'[n][j].answer \in Reading
  BY <1>2, <1>3, <1>4, WriteStepType DEF PageInv
<1>7. w.answer.now >= w.at /\ (w.answer.value # w.value => w.answer.now > w.at)
  BY <1>2, <1>3, <1>5
<1>8. AnswerFollowsCommand'
  BY <1>6, <1>7 DEF PageInv, WritesInv, AnswerFollowsCommand
<1>9. CommandsKept'
  BY <1>3, <1>6 DEF PageInv, WritesInv, CommandsKept, WriteAnswered
<1>10. PageType' /\ RuntimeInv' /\ PollsBehind' /\ OneRun'
  BY <1>6, PageFrame DEF PageInv, PageType, WriteAnswered
<1> QED BY <1>8, <1>9, <1>10 DEF PageInv, WritesInv

-----------------------------------------------------------------------------
(***************************************************************************)
(* The steps that make and end a mount                                     *)
(***************************************************************************)
\* Steps that leave the server and the writes alone.
LEMMA WritesKept ==
  ASSUME PageInv, UNCHANGED <<server, writes>>,
         RuntimeInv', PollsBehind', OneRun',
         view' \in [Mounts -> ViewRecord], poll' \in [Mounts -> PollRecord]
  PROVE  PageInv'
<1>1. WritesInv'
  BY WritesFrame DEF PageInv
<1>2. PageType'
  BY DEF PageInv, PageType
<1> QED BY <1>1, <1>2 DEF PageInv

\* refresh sends a poll of the generation.
LEMMA RefreshStep ==
  ASSUME PageInv, NEW m \in Mounts, Live(m)', NEW g \in Nat, Refresh(m, g),
         g <= view'[m].generation
  PROVE  /\ poll' \in [Mounts -> PollRecord]
         /\ \A n \in Mounts : n # m => poll'[n] = poll[n]
         /\ PollBehind(m)'
<1> DEFINE p == [NoPoll EXCEPT !.phase = "sent", !.started = g]
<1>1. p \in PollRecord /\ p.started = g
  BY SentPoll
<1>2. poll' = [poll EXCEPT ![m] = p]
  BY DEF Refresh
<1> HIDE DEF p
<1> QED BY <1>1, <1>2 DEF PageInv, PageType, PollBehind, Unborn, Live, Destroyed

LEMMA MountsStep ==
  ASSUME PageInv, NEW m \in Mounts, Mount(m)
  PROVE  PageInv'
<1>1. RuntimeInv'
  BY ClaimStep DEF PageInv, Mount
<1>2. /\ Live(m)'
      /\ \A n \in Mounts : n # m => phase'[n] = phase[n]
  BY DEF PageInv, RuntimeInv, RuntimeType, Mount, Claim, Live
<1>3. view'[m].generation \in Nat /\ view'[m] = view[m]
  BY DEF PageInv, PageType, ViewRecord, Mount
<1>4. /\ poll' \in [Mounts -> PollRecord]
      /\ \A n \in Mounts : n # m => poll'[n] = poll[n]
      /\ PollBehind(m)'
  BY <1>2, <1>3, RefreshStep DEF Mount
<1>5. view[m].initialized = FALSE
  BY Constants DEF PageInv, PollsBehind, PollBehind, Unborn, Mount, Claim, Claimable
<1>6. PollsBehind' /\ OneRun'
  BY <1>2, <1>3, <1>4, <1>5, MountStep DEF PageInv, Mount
<1> QED BY <1>1, <1>4, <1>6, WritesKept DEF Mount, PageInv, PageType

LEMMA MountFailsStep ==
  ASSUME PageInv, NEW m \in Mounts, MountFails(m)
  PROVE  PageInv'
<1>1. RuntimeInv'
  BY ClaimFailsStep DEF PageInv, MountFails
<1>2. /\ Unborn(m) /\ phase'[m] = "destroyed"
      /\ \A n \in Mounts : n # m => phase'[n] = phase[n]
  BY DEF PageInv, RuntimeInv, RuntimeType, MountFails, ClaimFails, Claimable, Unborn
<1>3. poll[m].started < 1
  BY <1>2, Constants DEF PageInv, PollsBehind, PollBehind
<1>4. PICK started \in BOOLEAN : Ended(m, 1, started)
  BY DEF MountFails
<1>5. /\ view' \in [Mounts -> ViewRecord]
      /\ poll' \in [Mounts -> PollRecord]
      /\ \A n \in Mounts : n # m => view'[n] = view[n] /\ poll'[n] = poll[n]
      /\ poll'[m].started < view'[m].generation
  BY <1>3, <1>4, EndedStep DEF PageInv
<1>6. PollBehind(m)' /\ ~Live(m)'
  BY <1>2, <1>5 DEF PollBehind, PollRecord, ViewRecord, Unborn, Live
<1>7. PollsBehind' /\ OneRun'
  BY <1>2, <1>5, <1>6, MountStep DEF PageInv
<1> QED BY <1>1, <1>5, <1>7, WritesKept DEF MountFails

LEMMA UnmountStep ==
  ASSUME PageInv, NEW m \in Mounts, Unmount(m)
  PROVE  PageInv'
<1> DEFINE g == view[m].generation + 1
<1>1. RuntimeInv'
  BY DestroyStep DEF PageInv, Unmount
<1>2. /\ phase'[m] = "destroyed"
      /\ \A n \in Mounts : n # m => phase'[n] = phase[n]
  BY DEF PageInv, RuntimeInv, RuntimeType, Unmount, Destroy
<1>3. g \in Nat /\ poll[m].started < g
  BY DEF PageInv, PageType, PollRecord, ViewRecord, PollsBehind, PollBehind
<1>4. Ended(m, g, poll[m] # NoPoll) /\ (poll[m] # NoPoll) \in BOOLEAN
  BY DEF Unmount
<1> HIDE DEF g
<1>5. /\ view' \in [Mounts -> ViewRecord]
      /\ poll' \in [Mounts -> PollRecord]
      /\ \A n \in Mounts : n # m => view'[n] = view[n] /\ poll'[n] = poll[n]
      /\ poll'[m].started < view'[m].generation
  BY <1>3, <1>4, EndedStep DEF PageInv
<1>6. PollBehind(m)' /\ ~Live(m)'
  BY <1>2, <1>5 DEF PollBehind, PollRecord, ViewRecord, Unborn, Live
<1>7. PollsBehind' /\ OneRun'
  BY <1>2, <1>5, <1>6, MountStep DEF PageInv
<1> QED BY <1>1, <1>5, <1>7, WritesKept DEF Unmount

LEMMA TimerFiresStep ==
  ASSUME PageInv, NEW m \in Mounts, TimerFires(m)
  PROVE  PageInv'
<1>1. RuntimeInv' /\ Live(m)
  BY FiresStep DEF PageInv, TimerFires
<1>2. phase' = phase /\ view' = view /\ Live(m)'
  BY <1>1 DEF TimerFires, Fires, Live
<1>3. view[m].generation \in Nat
  BY DEF PageInv, PageType, ViewRecord
<1>4. /\ poll' \in [Mounts -> PollRecord]
      /\ \A n \in Mounts : n # m => poll'[n] = poll[n]
      /\ PollBehind(m)'
  BY <1>2, <1>3, RefreshStep DEF TimerFires
<1>5. (Live(m) /\ view[m].initialized => ViewOfOneRun(view[m]))'
  BY <1>1, <1>2 DEF PageInv, OneRun, ViewOfOneRun
<1>6. PollsBehind' /\ OneRun'
  BY <1>2, <1>4, <1>5, MountStep DEF PageInv
<1> QED BY <1>1, <1>2, <1>4, <1>6, WritesKept DEF TimerFires, PageInv, PageType

-----------------------------------------------------------------------------
(***************************************************************************)
(* The steps of a poll                                                     *)
(***************************************************************************)
LEMMA ReadAnsweredStep ==
  ASSUME PageInv, NEW m \in Mounts, NEW r \in Reads, ReadAnswered(m, r)
  PROVE  PageInv'
<1> DEFINE q == [poll[m] EXCEPT !.reads[r] = Response(r)]
<1>1. poll[m] \in PollRecord /\ poll[m].phase = "sent" /\ Response(r) \in Reading
  BY ReadingType DEF PageInv, PageType, ReadAnswered
<1>2. q \in PollRecord /\ q.started = poll[m].started
  BY <1>1, ReadPoll
<1>3. poll' = [poll EXCEPT ![m] = q]
  BY Zenon DEF ReadAnswered, PageInv, PageType
<1> HIDE DEF q
<1>4. /\ poll' \in [Mounts -> PollRecord]
      /\ poll'[m].started = poll[m].started
      /\ \A n \in Mounts : n # m => poll'[n] = poll[n]
  BY <1>2, <1>3 DEF PageInv, PageType
<1>5. ~Unborn(m)
  BY <1>1, Constants DEF PageInv, PollsBehind, PollBehind
<1>6. phase' = phase /\ view' = view
  BY DEF ReadAnswered, runtimeVars
<1>7. PollBehind(m)'
  BY <1>4, <1>5, <1>6 DEF PageInv, PollsBehind, PollBehind, Unborn, Destroyed
<1>8. (Live(m) /\ view[m].initialized => ViewOfOneRun(view[m]))'
  BY <1>6 DEF PageInv, OneRun, ViewOfOneRun, Live
<1>9. PollsBehind' /\ OneRun'
  BY <1>4, <1>6, <1>7, <1>8, MountStep DEF PageInv
<1>10. RuntimeInv'
  BY RuntimeFrame DEF PageInv, ReadAnswered
<1> QED BY <1>4, <1>6, <1>9, <1>10, WritesKept DEF ReadAnswered, PageInv, PageType

\* A poll ends, and leaves the generation of its view.
LEMMA EndPollStep ==
  ASSUME PageInv, NEW m \in Mounts, poll[m].phase = "sent", EndPoll(m),
         UNCHANGED <<server, writes>>,
         view' \in [Mounts -> ViewRecord],
         view'[m].generation = view[m].generation,
         \A n \in Mounts : n # m => view'[n] = view[n],
         (Live(m) /\ view[m].initialized => ViewOfOneRun(view[m]))'
  PROVE  PageInv'
<1>1. ~Unborn(m)
  BY Constants DEF PageInv, PollsBehind, PollBehind
<1>2. RuntimeInv' /\ phase' = phase
  BY <1>1, LaterStep DEF PageInv, EndPoll, Later
<1>3. /\ poll' \in [Mounts -> PollRecord]
      /\ poll'[m] = NoPoll
      /\ \A n \in Mounts : n # m => poll'[n] = poll[n]
  BY Constants DEF PageInv, PageType, EndPoll
<1>4. view[m].generation \in Nat /\ poll[m].started \in Nat
  BY DEF PageInv, PageType, ViewRecord, PollRecord
<1>5. PollBehind(m)'
  BY <1>1, <1>2, <1>3, <1>4, Constants DEF PageInv, PollsBehind, PollBehind, Unborn, Destroyed
<1>6. PollsBehind' /\ OneRun'
  BY <1>2, <1>3, <1>5, MountStep DEF PageInv
<1> QED BY <1>2, <1>3, <1>6, WritesKept

LEMMA PollReceiveStep ==
  ASSUME PageInv, NEW m \in Mounts, PollReceive(m)
  PROVE  PageInv'
<1> DEFINE reads == poll[m].reads
<1>1. /\ poll[m].phase = "sent" /\ EndPoll(m)
      /\ UNCHANGED <<server, writes>>
  BY DEF PollReceive
<1>2. reads \in [Reads -> Reading]
  BY DEF PollReceive, PageInv, PageType, PollRecord, Answer
<1>3. PICK focused \in Kinds \cup {"none"} :
        view' = IF poll[m].started = view[m].generation /\ SameRun(reads)
                THEN [view EXCEPT ![m] = Accept(view[m], reads, focused)]
                ELSE view
  BY Zenon DEF PollReceive, PageInv, PageType
<1> HIDE DEF reads
<1>4. CASE view' = view
  <2>1. (Live(m) /\ view[m].initialized => ViewOfOneRun(view[m]))'
    BY <1>1, <1>4 DEF PageInv, OneRun, ViewOfOneRun, Live, EndPoll, Later
  <2> QED BY <1>1, <1>4, <2>1, EndPollStep DEF PageInv, PageType
<1>5. CASE SameRun(reads) /\ view' = [view EXCEPT ![m] = Accept(view[m], reads, focused)]
  <2> DEFINE v == Accept(view[m], reads, focused)
  <2>1. /\ v \in ViewRecord
        /\ v.generation = view[m].generation
        /\ ViewOfOneRun(v)
    BY <1>2, <1>5, AcceptType DEF ViewOfOneRun, PageInv, PageType
  <2>2. view' = [view EXCEPT ![m] = v]
    BY <1>5
  <2> HIDE DEF v
  <2>3. /\ view' \in [Mounts -> ViewRecord]
        /\ view'[m] = v
        /\ \A n \in Mounts : n # m => view'[n] = view[n]
    BY <2>1, <2>2 DEF PageInv, PageType
  <2>4. ViewOfOneRun(view[m])'
    BY <2>1, <2>3 DEF ViewOfOneRun
  <2> QED BY <1>1, <2>1, <2>3, <2>4, EndPollStep
<1> QED BY <1>3, <1>4, <1>5

LEMMA PollFailsStep ==
  ASSUME PageInv, NEW m \in Mounts, PollFails(m)
  PROVE  PageInv'
<1> DEFINE v == [view[m] EXCEPT !.stale = TRUE]
<1>1. /\ poll[m].phase = "sent" /\ EndPoll(m)
      /\ UNCHANGED <<server, writes>> /\ phase' = phase
  BY DEF PollFails, EndPoll, Later
<1>2. /\ v \in ViewRecord /\ v.generation = view[m].generation
      /\ v.initialized = view[m].initialized
      /\ ViewOfOneRun(view[m]) => ViewOfOneRun(v)
  BY DEF PageInv, PageType, ViewRecord, ViewOfOneRun
<1>3. view' = view \/ view' = [view EXCEPT ![m] = v]
  BY DEF PollFails, PageInv, PageType
<1> HIDE DEF v
<1>4. /\ view' \in [Mounts -> ViewRecord]
      /\ view'[m] \in {view[m], v}
      /\ \A n \in Mounts : n # m => view'[n] = view[n]
  BY <1>2, <1>3 DEF PageInv, PageType
<1>5. Live(m) /\ view[m].initialized => ViewOfOneRun(view[m])
  BY DEF PageInv, OneRun, ViewOfOneRun
<1>6. Live(m)' /\ view'[m].initialized => ViewOfOneRun(view'[m])
  BY <1>1, <1>2, <1>4, <1>5 DEF Live
<1>7. (Live(m) /\ view[m].initialized => ViewOfOneRun(view[m]))'
  BY <1>6 DEF ViewOfOneRun
<1> QED BY <1>1, <1>2, <1>4, <1>7, EndPollStep

-----------------------------------------------------------------------------
(***************************************************************************)
(* The steps of the user and of the writes                                 *)
(***************************************************************************)
\* The page changes the view of a live mount.
LEMMA ViewStep ==
  ASSUME PageInv, NEW m \in Mounts, Live(m), NEW v \in ViewRecord,
         v.generation >= view[m].generation,
         v.initialized => ViewOfOneRun(v),
         view' = [view EXCEPT ![m] = v],
         UNCHANGED <<runtimeVars, poll>>
  PROVE  /\ RuntimeInv' /\ PollsBehind' /\ OneRun'
         /\ view' \in [Mounts -> ViewRecord] /\ poll' \in [Mounts -> PollRecord]
<1>1. /\ view' \in [Mounts -> ViewRecord]
      /\ view'[m] = v
      /\ \A n \in Mounts : n # m => view'[n] = view[n]
  BY DEF PageInv, PageType
<1>2. phase' = phase /\ poll' = poll /\ RuntimeInv'
  BY RuntimeFrame DEF PageInv, runtimeVars
<1>3. /\ view[m].generation \in Nat /\ v.generation \in Nat /\ poll[m].started \in Nat
      /\ poll[m].started <= view[m].generation
  BY DEF PageInv, PageType, ViewRecord, PollRecord, PollsBehind, PollBehind
<1>4. PollBehind(m)'
  BY <1>1, <1>2, <1>3 DEF PollBehind, Live, Unborn, Destroyed
<1>5. (Live(m) /\ view[m].initialized => ViewOfOneRun(view[m]))'
  BY <1>1 DEF ViewOfOneRun
<1>6. PollsBehind' /\ OneRun'
  BY <1>1, <1>2, <1>4, <1>5, MountStep DEF PageInv
<1> QED BY <1>1, <1>2, <1>6 DEF PageInv, PageType

\* A live view that works is of one run.
LEMMA LiveView ==
  ASSUME PageInv, NEW m \in Mounts, Live(m), view[m].initialized
  PROVE  ViewOfOneRun(view[m])
BY DEF PageInv, OneRun, ViewOfOneRun

LEMMA InputStep ==
  ASSUME PageInv, NEW m \in Mounts, NEW k \in Kinds, NEW value \in Values[k], Input(m, k, value)
  PROVE  PageInv'
<1> DEFINE v == [view[m] EXCEPT !.input[k] = value, !.dirty[k] = TRUE]
<1>1. /\ view[m] \in ViewRecord /\ value \in Nat
      /\ Live(m) /\ ViewOfOneRun(view[m])
  BY ManagerAssumption, LiveView DEF Input, FieldEnabled, PageInv, PageType
<1>2. /\ [view[m].input EXCEPT ![k] = value] \in [Kinds -> Nat]
      /\ [view[m].dirty EXCEPT ![k] = TRUE] \in [Kinds -> BOOLEAN]
  BY <1>1 DEF ViewRecord
<1>3. /\ v \in ViewRecord /\ v.generation = view[m].generation
      /\ v.messages = view[m].messages /\ v.runId = view[m].runId /\ v.shown = view[m].shown
  BY <1>1, <1>2 DEF ViewRecord
<1>4. view' = [view EXCEPT ![m] = v]
  BY DEF Input, PageInv, PageType
<1> HIDE DEF v
<1>5. v.generation >= view[m].generation /\ ViewOfOneRun(v)
  BY <1>1, <1>3 DEF ViewOfOneRun, ViewRecord
<1>6. /\ RuntimeInv' /\ PollsBehind' /\ OneRun'
      /\ view' \in [Mounts -> ViewRecord] /\ poll' \in [Mounts -> PollRecord]
  BY <1>1, <1>3, <1>4, <1>5, ViewStep DEF Input
<1> QED BY <1>6, WritesKept DEF Input

\* A submit starts a write and advances the generation.
LEMMA WriteStarts ==
  ASSUME PageInv, NEW m \in Mounts, NEW k \in Kinds, Live(m),
         NEW v \in ViewRecord, v.generation = view[m].generation, ViewOfOneRun(v),
         Write(m, k, v), UNCHANGED <<runtimeVars, server, poll>>
  PROVE  PageInv'
<1> DEFINE u == [v EXCEPT !.saving[k] = TRUE, !.generation = @ + 1]
           w == [NoWrite EXCEPT !.phase = "sent", !.value = v.input[k]]
<1>1. v.generation \in Nat /\ v.input[k] \in Nat
  BY DEF ViewRecord
<1>2. [v.saving EXCEPT ![k] = TRUE] \in [Kinds -> BOOLEAN]
  BY DEF ViewRecord
<1>3. u = [v EXCEPT !.saving = [v.saving EXCEPT ![k] = TRUE], !.generation = v.generation + 1]
  BY Zenon DEF ViewRecord
<1>4. /\ u \in ViewRecord /\ u.generation = v.generation + 1
      /\ u.messages = v.messages /\ u.runId = v.runId /\ u.shown = v.shown
  <2> DEFINE saving == [v.saving EXCEPT ![k] = TRUE]
             g == v.generation + 1
  <2>1. saving \in [Kinds -> BOOLEAN] /\ g \in Nat
    BY <1>1, <1>2
  <2>2. u = [v EXCEPT !.saving = saving, !.generation = g]
    BY <1>3
  <2> HIDE DEF u, saving, g
  <2>3. u \in ViewRecord /\ u.generation = g
    BY <2>1, <2>2 DEF ViewRecord
  <2>4. u.messages = v.messages /\ u.runId = v.runId /\ u.shown = v.shown
    BY <2>2 DEF ViewRecord
  <2> QED BY <2>3, <2>4 DEF g
<1>5. w \in WriteRecord /\ w.phase = "sent"
  BY <1>1, Constants DEF WriteRecord, WritePhases
<1>6. view' = [view EXCEPT ![m] = u] /\ writes' = [writes EXCEPT ![m][k] = w]
  BY DEF Write
<1> HIDE DEF u, w
<1>7. u.generation >= view[m].generation /\ ViewOfOneRun(u)
  BY <1>1, <1>4 DEF ViewOfOneRun
<1>8. /\ RuntimeInv' /\ PollsBehind' /\ OneRun'
      /\ view' \in [Mounts -> ViewRecord] /\ poll' \in [Mounts -> PollRecord]
  BY <1>4, <1>6, <1>7, ViewStep
<1>9. WritesInv'
  BY <1>5, <1>6, WriteStepInv DEF PageInv
<1>10. /\ writes' \in [Mounts -> [Kinds -> WriteRecord]]
       /\ \A n \in Mounts, j \in Kinds :
            writes'[n][j].phase = "answered" => writes'[n][j].answer \in Reading
  BY <1>5, <1>6, WriteStepType DEF PageInv
<1>11. PageType'
  BY <1>8, <1>10 DEF PageType, PageInv
<1> QED BY <1>8, <1>9, <1>11 DEF PageInv

LEMMA SubmitStep ==
  ASSUME PageInv, NEW m \in Mounts, NEW k \in Kinds, Submit(m, k)
  PROVE  PageInv'
<1>1. Live(m) /\ view[m] \in ViewRecord /\ ViewOfOneRun(view[m])
  BY LiveView DEF Submit, ButtonEnabled, FieldEnabled, PageInv, PageType
<1> QED BY <1>1, WriteStarts DEF Submit

LEMMA PresetStep ==
  ASSUME PageInv, NEW m \in Mounts, NEW value \in Values["speed"], Preset(m, value)
  PROVE  PageInv'
<1> DEFINE v == [view[m] EXCEPT !.input["speed"] = value, !.dirty["speed"] = TRUE]
<1>1. /\ Live(m) /\ view[m] \in ViewRecord /\ ViewOfOneRun(view[m])
      /\ "speed" \in Kinds /\ value \in Nat
  BY LiveView, ManagerAssumption
  DEF Preset, ButtonEnabled, FieldEnabled, PageInv, PageType, Kinds
<1>2. /\ [view[m].input EXCEPT !["speed"] = value] \in [Kinds -> Nat]
      /\ [view[m].dirty EXCEPT !["speed"] = TRUE] \in [Kinds -> BOOLEAN]
  BY <1>1 DEF ViewRecord
<1>3. /\ v \in ViewRecord /\ v.generation = view[m].generation
      /\ v.messages = view[m].messages /\ v.runId = view[m].runId /\ v.shown = view[m].shown
  BY <1>1, <1>2 DEF ViewRecord
<1>4. Write(m, "speed", v)
  BY DEF Preset
<1> HIDE DEF v
<1>5. ViewOfOneRun(v)
  BY <1>1, <1>3 DEF ViewOfOneRun
<1> QED BY <1>1, <1>3, <1>4, <1>5, WriteStarts DEF Preset

\* A write ends, with or without an answer that is shown.
LEMMA WriteEnds ==
  ASSUME PageInv, NEW m \in Mounts, NEW k \in Kinds,
         NEW v \in ViewRecord, v.generation = view[m].generation,
         Live(m) => (v.initialized => ViewOfOneRun(v)),
         view' = IF Live(m) THEN [view EXCEPT ![m] = EndWrite(v, k)] ELSE view,
         writes' = [writes EXCEPT ![m][k] = NoWrite],
         UNCHANGED <<runtimeVars, server, poll>>
  PROVE  PageInv'
<1> DEFINE u == EndWrite(v, k)
<1>1. u \in ViewRecord /\ u.generation = v.generation + 1 /\ v.generation \in Nat
  BY EndWriteType DEF ViewRecord
<1>2. /\ u.messages = v.messages /\ u.runId = v.runId /\ u.shown = v.shown
      /\ u.initialized = v.initialized
  BY DEF EndWrite, ViewRecord
<1>3. NoWrite \in WriteRecord /\ NoWrite.phase = "none"
  BY Constants
<1>4. WritesInv'
  BY <1>3, WriteStepInv DEF PageInv
<1>5. /\ writes' \in [Mounts -> [Kinds -> WriteRecord]]
      /\ \A n \in Mounts, j \in Kinds :
           writes'[n][j].phase = "answered" => writes'[n][j].answer \in Reading
  BY <1>3, WriteStepType DEF PageInv
<1> HIDE DEF u
<1>6. /\ RuntimeInv' /\ PollsBehind' /\ OneRun'
      /\ view' \in [Mounts -> ViewRecord] /\ poll' \in [Mounts -> PollRecord]
  <2>1. CASE Live(m)
    <3>1. view' = [view EXCEPT ![m] = u]
      BY <2>1 DEF u
    <3>2. u.generation >= view[m].generation /\ (u.initialized => ViewOfOneRun(u))
      BY <1>1, <1>2, <2>1 DEF ViewOfOneRun
    <3> QED BY <1>1, <2>1, <3>1, <3>2, ViewStep
  <2>2. CASE ~Live(m)
    BY <2>2, PageFrame
  <2> QED BY <2>1, <2>2
<1>7. PageType'
  BY <1>5, <1>6 DEF PageType, PageInv
<1> QED BY <1>4, <1>6, <1>7 DEF PageInv

LEMMA WriteReceiveStep ==
  ASSUME PageInv, NEW m \in Mounts, NEW k \in Kinds, WriteReceive(m, k)
  PROVE  PageInv'
<1> DEFINE s == writes[m][k].answer
           v == IF s.run = view[m].runId THEN Confirm(view[m], k, s) ELSE view[m]
<1>1. view[m] \in ViewRecord /\ s \in Reading
  BY DEF WriteReceive, PageInv, PageType
<1>2. /\ v \in ViewRecord
      /\ v.generation = view[m].generation
      /\ v.initialized = view[m].initialized
      /\ ViewOfOneRun(view[m]) => ViewOfOneRun(v)
  <2>1. CASE s.run = view[m].runId
    <3> DEFINE c == Confirm(view[m], k, s)
    <3>1. c \in ViewRecord
      BY <1>1, ConfirmType
    <3>2. /\ c.generation = view[m].generation
          /\ c.initialized = view[m].initialized
          /\ c.messages = view[m].messages /\ c.runId = view[m].runId
          /\ c.shown = [view[m].shown EXCEPT ![k] = s]
      BY <1>1 DEF Confirm, ViewRecord
    <3>3. ViewOfOneRun(view[m]) => ViewOfOneRun(c)
      BY <1>1, <2>1, <3>2 DEF ViewOfOneRun, ViewRecord
    <3> QED BY <2>1, <3>1, <3>2, <3>3
  <2>2. CASE s.run # view[m].runId
    BY <1>1, <2>2
  <2> QED BY <2>1, <2>2
<1>3. /\ view' = IF Live(m) THEN [view EXCEPT ![m] = EndWrite(v, k)] ELSE view
      /\ writes' = [writes EXCEPT ![m][k] = NoWrite]
      /\ UNCHANGED <<runtimeVars, server, poll>>
  BY DEF WriteReceive
<1> HIDE DEF v
<1>4. Live(m) => (v.initialized => ViewOfOneRun(v))
  BY <1>2, LiveView
<1> QED BY <1>2, <1>3, <1>4, WriteEnds

LEMMA WriteFailsStep ==
  ASSUME PageInv, NEW m \in Mounts, NEW k \in Kinds, WriteFails(m, k)
  PROVE  PageInv'
<1>1. view[m] \in ViewRecord /\ (Live(m) => (view[m].initialized => ViewOfOneRun(view[m])))
  BY LiveView DEF PageInv, PageType
<1>2. view' = IF Live(m) THEN [view EXCEPT ![m] = EndWrite(view[m], k)] ELSE view
  BY DEF WriteFails, PageInv, PageType
<1> QED BY <1>1, <1>2, WriteEnds DEF WriteFails

-----------------------------------------------------------------------------
(***************************************************************************)
(* The theorems                                                            *)
(***************************************************************************)
LEMMA InitInv == ASSUME Init PROVE PageInv
<1>1. RuntimeInv
  BY Constants
  DEF Init, RuntimeInit, RuntimeInv, RuntimeType, MountsExclusive, UnbornIdle, Live, Destroyed
<1>2. server \in ServerRecord
  BY NewRunType DEF Init
<1>3. /\ view \in [Mounts -> ViewRecord] /\ poll \in [Mounts -> PollRecord]
      /\ writes \in [Mounts -> [Kinds -> WriteRecord]]
      /\ \A m \in Mounts, k \in Kinds : writes[m][k].phase = "none"
  BY Constants DEF Init
<1>4. PollsBehind /\ OneRun
  BY Constants DEF Init, RuntimeInit, PollsBehind, PollBehind, OneRun, Unborn, Destroyed, Live
<1>5. WritesInv
  BY <1>3 DEF WritesInv, CommandsKept, AnswerFollowsCommand
<1> QED BY <1>1, <1>2, <1>3, <1>4, <1>5 DEF PageInv, PageType

LEMMA StutterStep == ASSUME PageInv, UNCHANGED vars PROVE PageInv'
<1>1. UNCHANGED <<runtimeVars, server, view, poll, writes>>
  BY DEF vars, pageVars
<1>2. /\ RuntimeInv' /\ PollsBehind' /\ OneRun'
      /\ view' \in [Mounts -> ViewRecord] /\ poll' \in [Mounts -> PollRecord]
  BY <1>1, PageFrame
<1> QED BY <1>1, <1>2, WritesKept

LEMMA NextStep == ASSUME PageInv, [Next]_vars PROVE PageInv'
<1>1. CASE \E k \in Kinds : \E value \in Values[k] : OtherCommands(k, value)
  BY <1>1, OtherCommandsStep
<1>2. CASE Restart
  BY <1>2, RestartStep
<1>3. CASE \E m \in Mounts : MountNext(m)
  <2>1. PICK m \in Mounts : MountNext(m)
    BY <1>3
  <2>2. CASE Mount(m) \/ MountFails(m) \/ Unmount(m)
    BY <2>2, MountsStep, MountFailsStep, UnmountStep
  <2>3. CASE \/ TimerFires(m) \/ (\E r \in Reads : ReadAnswered(m, r))
             \/ PollReceive(m) \/ PollFails(m)
    BY <2>3, TimerFiresStep, ReadAnsweredStep, PollReceiveStep, PollFailsStep
  <2>4. CASE \E k \in Kinds : \E value \in Values[k] : Input(m, k, value)
    BY <2>4, InputStep
  <2>5. CASE \E k \in Kinds : \/ Submit(m, k) \/ WriteCommands(m, k) \/ WriteAnswered(m, k)
                             \/ WriteReceive(m, k) \/ WriteFails(m, k)
    BY <2>5, SubmitStep, WriteCommandsStep, WriteAnsweredStep, WriteReceiveStep, WriteFailsStep
  <2>6. CASE \E value \in Values["speed"] : Preset(m, value)
    BY <2>6, PresetStep
  <2> QED BY <2>1, <2>2, <2>3, <2>4, <2>5, <2>6 DEF MountNext
<1>4. CASE UNCHANGED vars
  BY <1>4, StutterStep
<1> QED BY <1>1, <1>2, <1>3, <1>4 DEF Next

\* What every reachable state of the page and its runtime satisfies; the theorems
\* below follow from it.
THEOREM PageInvariant == Spec => []PageInv
<1>1. Init => PageInv
  BY InitInv
<1>2. PageInv /\ [Next]_vars => PageInv'
  BY NextStep
<1> QED BY <1>1, <1>2, PTL DEF Spec

\* At most one mount holds the root, and an ended one holds no timer and no
\* cleanup (claim, destroy of runtime.js).
THEOREM ExclusiveCorrect == Spec => []MountsExclusive
<1>1. PageInv => MountsExclusive
  BY DEF PageInv, RuntimeInv
<1> QED BY <1>1, PageInvariant, PTL

\* The readings that the controls, the clock and the messages show are of one
\* run of the simulator (refresh and write of manager.js).
THEOREM OneRunCorrect == Spec => []OneRun
<1>1. PageInv => OneRun
  BY DEF PageInv
<1> QED BY <1>1, PageInvariant, PTL

\* A write is answered with the state after its command, of which only another
\* command can take the value away (setCount and setTime of api.go).
THEOREM AnswerCorrect == Spec => []AnswerFollowsCommand
<1>1. PageInv => AnswerFollowsCommand
  BY DEF PageInv, WritesInv
<1> QED BY <1>1, PageInvariant, PTL

\* What happens to a mount that has ended.
Quiet == \A m \in Mounts : Destroyed(m) => view'[m] = view[m] /\ timers'[m] = timers[m]

LEMMA QuietStep == ASSUME PageInv, [Next]_vars PROVE Quiet
<1> SUFFICES ASSUME NEW m \in Mounts, Destroyed(m)
             PROVE  view'[m] = view[m] /\ timers'[m] = timers[m]
  BY DEF Quiet
<1>1. /\ ~Live(m) /\ ~Unborn(m) /\ timers[m] = 0
      /\ poll[m].started # view[m].generation
  BY DEF PageInv, PageType, PollRecord, ViewRecord, PollsBehind, PollBehind,
         RuntimeInv, MountsExclusive, Live, Unborn, Destroyed
<1>2. CASE \E k \in Kinds : \E value \in Values[k] : OtherCommands(k, value)
  BY <1>2 DEF OtherCommands, runtimeVars, pageVars
<1>3. CASE Restart
  BY <1>3 DEF Restart, runtimeVars
<1>4. CASE \E n \in Mounts : MountNext(n)
  <2>1. PICK n \in Mounts : MountNext(n)
    BY <1>4
  <2>2. CASE Mount(n)
    BY <2>2 DEF Mount, Claim
  <2>3. CASE MountFails(n)
    <3>1. n # m
      BY <1>1, <2>3 DEF MountFails, ClaimFails, Claimable, Unborn
    <3> QED BY <2>3, <3>1 DEF MountFails, ClaimFails, Ended
  <2>4. CASE Unmount(n)
    <3>1. n # m
      BY <1>1, <2>4 DEF Unmount, Destroy
    <3> QED BY <2>4, <3>1 DEF Unmount, Destroy, Ended
  <2>5. CASE TimerFires(n)
    <3>1. n # m
      BY <1>1, <2>5 DEF TimerFires, Fires
    <3> QED BY <2>5, <3>1 DEF TimerFires, Fires
  <2>6. CASE \E r \in Reads : ReadAnswered(n, r)
    BY <2>6 DEF ReadAnswered, runtimeVars
  <2>7. CASE PollReceive(n)
    <3>1. timers'[m] = timers[m]
      BY <2>7 DEF PollReceive, EndPoll, Later
    <3>2. view'[m] = view[m]
      BY <1>1, <2>7 DEF PollReceive
    <3> QED BY <3>1, <3>2
  <2>8. CASE PollFails(n)
    <3>1. timers'[m] = timers[m]
      BY <2>8 DEF PollFails, EndPoll, Later
    <3>2. view'[m] = view[m]
      BY <1>1, <2>8 DEF PollFails
    <3> QED BY <3>1, <3>2
  <2>9. CASE \E k \in Kinds : \E value \in Values[k] : Input(n, k, value)
    <3>1. PICK k \in Kinds : \E value \in Values[k] : Input(n, k, value)
      BY <2>9
    <3>2. PICK value \in Values[k] : Input(n, k, value)
      BY <3>1
    <3>3. n # m /\ timers' = timers
      BY <1>1, <3>2 DEF Input, FieldEnabled, runtimeVars
    <3>4. view' = [view EXCEPT ![n] = [view[n] EXCEPT !.input[k] = value, !.dirty[k] = TRUE]]
      BY <3>2 DEF Input, PageInv, PageType
    <3> QED BY <3>3, <3>4 DEF PageInv, PageType
  <2>10. CASE \E k \in Kinds : Submit(n, k)
    BY <1>1, <2>10 DEF Submit, ButtonEnabled, FieldEnabled, Write, runtimeVars
  <2>11. CASE \E value \in Values["speed"] : Preset(n, value)
    BY <1>1, <2>11 DEF Preset, ButtonEnabled, FieldEnabled, Write, runtimeVars
  <2>12. CASE \E k \in Kinds : WriteCommands(n, k) \/ WriteAnswered(n, k)
    <3>1. UNCHANGED <<runtimeVars, view>>
      BY Zenon, <2>12 DEF WriteCommands, WriteAnswered
    <3> QED BY <3>1 DEF runtimeVars
  <2>13. CASE \E k \in Kinds : WriteReceive(n, k) \/ WriteFails(n, k)
    <3>1. PICK k \in Kinds : WriteReceive(n, k) \/ WriteFails(n, k)
      BY <2>13
    <3>2. timers' = timers
      BY <3>1 DEF WriteReceive, WriteFails, runtimeVars
    <3>3. CASE n = m
      <4>1. ~Live(n)
        BY <1>1, <3>3
      <4>2. view' = view
        BY Zenon, <3>1, <4>1 DEF WriteReceive, WriteFails
      <4> QED BY <3>2, <4>2
    <3>4. CASE n # m
      <4>1. \/ view' = view
            \/ \E v : view' = [view EXCEPT ![n] = v]
        BY Zenon, <3>1 DEF WriteReceive, WriteFails
      <4> QED BY <3>2, <3>4, <4>1 DEF PageInv, PageType
    <3> QED BY <3>2, <3>3, <3>4
  <2> QED BY <2>1, <2>2, <2>3, <2>4, <2>5, <2>6, <2>7, <2>8, <2>9, <2>10, <2>11, <2>12, <2>13
          DEF MountNext
<1>5. CASE UNCHANGED vars
  BY <1>5 DEF vars, pageVars, runtimeVars
<1> QED BY <1>2, <1>3, <1>4, <1>5 DEF Next

\* A mount that has ended shows nothing new and arms no timer, whatever is still
\* answered to it (onDestroy and runtime.destroyed).
THEOREM QuietCorrect == Spec => DestroyedQuiet
<1>1. PageInv /\ [Next]_vars => [Quiet]_vars
  BY QuietStep
<1>2. Spec => [][Quiet]_vars
  BY <1>1, PageInvariant, PTL DEF Spec
<1> QED BY <1>2 DEF DestroyedQuiet, Quiet
-----------------------------------------------------------------------------
(***************************************************************************)
(* No poll of the manager page goes back in time, for any number of mounts,*)
(* any values and any bounds.                                              *)
(***************************************************************************)
\* What a view shows of a read.
ShownBy(v, r) ==
  CASE r = "vessels" -> v.shown["count"]
    [] r = "metadata" -> v.shown["speed"]
    [] r = "messages" -> v.messages

\* Nothing shown is later than s, and no answer of a poll or a write either.
ViewUntil(v, s) == \A r \in Reads : NotBefore(s, ShownBy(v, r))
PollUntil(p, s) == \A r \in Reads : p.reads[r] # NoAnswer => NotBefore(s, p.reads[r])
WriteUntil(w, s) == w.phase = "answered" => NotBefore(s, w.answer)

\* A poll that may still be accepted was read no earlier than what is shown.
PollFresh(p, v) ==
  p.started = v.generation =>
    \A r \in Reads : p.reads[r] # NoAnswer => NotBefore(p.reads[r], ShownBy(v, r))

OrderInv ==
  \A m \in Mounts :
    /\ ViewUntil(view[m], server) /\ PollUntil(poll[m], server)
    /\ \A k \in Kinds : WriteUntil(writes[m][k], server)
    /\ PollFresh(poll[m], view[m])

-----------------------------------------------------------------------------
(***************************************************************************)
(* The order of readings                                                   *)
(***************************************************************************)
LEMMA OrderFacts ==
  ASSUME server \in ServerRecord
  PROVE  /\ \A x \in Reading : NotBefore(x, x) /\ NotBefore(x, Nothing)
         /\ NotBefore(server, Nothing)
         /\ \A r \in Reads : NotBefore(server, Response(r))
         /\ \A k \in Kinds : NotBefore(server, Shown(k, server))
         /\ \A x \in Reading, r \in Reads : NotBefore(server, x) => NotBefore(Response(r), x)
BY DEF ServerRecord, Reading, Nothing, NotBefore, Response, Shown, Reads

\* The data of a view and of a poll that matter here.
LEMMA EmptyPoll == \A r \in Reads : NoPoll.reads[r] = NoAnswer
BY DEF NoPoll

LEMMA EmptyView == \A r \in Reads : ShownBy(NewView, r) = Nothing
BY DEF NewView, ShownBy, Reads, Kinds

LEMMA SameShown ==
  ASSUME NEW v, NEW u, u.shown = v.shown, u.messages = v.messages
  PROVE  \A r \in Reads : ShownBy(u, r) = ShownBy(v, r)
BY DEF ShownBy, Reads

\* The simulator's runs and its time only advance.
LEMMA ServerAdvances ==
  ASSUME PageInv,
         \/ server'.run = server.run /\ server'.now = server.now + 1
         \/ server'.run = server.run + 1,
         NEW x \in Reading, NotBefore(server, x)
  PROVE  NotBefore(server', x)
BY DEF PageInv, PageType, ServerRecord, Reading, NotBefore

LEMMA ShownType ==
  ASSUME NEW v \in ViewRecord
  PROVE  \A r \in Reads : ShownBy(v, r) \in Reading
BY DEF ShownBy, Reads, Kinds, ViewRecord

\* A command leaves the run.
LEMMA CommandRun ==
  ASSUME server \in ServerRecord, NEW k \in Kinds, NEW value \in Nat, Command(k, value)
  PROVE  server'.run = server.run /\ server'.now = server.now + 1
BY DEF Command, ServerRecord, Kinds

-----------------------------------------------------------------------------
(***************************************************************************)
(* The steps                                                               *)
(***************************************************************************)
\* A step of the server that keeps what was read.
LEMMA ServerStep ==
  ASSUME PageInv, OrderInv, UNCHANGED <<view, poll>>,
         \/ server'.run = server.run /\ server'.now = server.now + 1
         \/ server'.run = server.run + 1,
         \A m \in Mounts, k \in Kinds :
           writes'[m][k].phase = "answered" =>
             writes[m][k].phase = "answered" /\ writes'[m][k].answer = writes[m][k].answer
  PROVE  OrderInv'
<1> SUFFICES ASSUME NEW m \in Mounts
             PROVE  /\ ViewUntil(view[m], server') /\ PollUntil(poll[m], server')
                    /\ \A k \in Kinds : WriteUntil(writes'[m][k], server')
                    /\ PollFresh(poll[m], view[m])
  BY DEF OrderInv
<1>1. /\ \A r \in Reads : ShownBy(view[m], r) \in Reading
      /\ \A r \in Reads : poll[m].reads[r] # NoAnswer => poll[m].reads[r] \in Reading
      /\ \A k \in Kinds : writes[m][k].phase = "answered" => writes[m][k].answer \in Reading
  BY ShownType DEF PageInv, PageType, PollRecord, Answer
<1>2. ViewUntil(view[m], server') /\ PollUntil(poll[m], server')
  BY <1>1, ServerAdvances DEF OrderInv, ViewUntil, PollUntil
<1>3. \A k \in Kinds : WriteUntil(writes'[m][k], server')
  BY <1>1, ServerAdvances DEF OrderInv, WriteUntil
<1> QED BY <1>2, <1>3 DEF OrderInv

\* A step of one mount.
LEMMA OneMountStep ==
  ASSUME OrderInv, UNCHANGED server, NEW m \in Mounts,
         \A n \in Mounts : n # m =>
           view'[n] = view[n] /\ poll'[n] = poll[n] /\ writes'[n] = writes[n],
         ViewUntil(view'[m], server), PollUntil(poll'[m], server),
         \A k \in Kinds : WriteUntil(writes'[m][k], server),
         PollFresh(poll'[m], view'[m])
  PROVE  OrderInv'
BY DEF OrderInv

\* A poll without an answer, or behind the generation, is in order.
LEMMA EmptyPollFresh ==
  ASSUME NEW p, NEW v, NEW s, \A r \in Reads : p.reads[r] = NoAnswer
  PROVE  PollFresh(p, v) /\ PollUntil(p, s)
BY DEF PollFresh, PollUntil

LEMMA EndedOrder ==
  ASSUME PageInv, OrderInv, NEW m \in Mounts, NEW g \in Nat, NEW started \in BOOLEAN,
         poll[m].started < g, Ended(m, g, started), UNCHANGED <<server, writes>>
  PROVE  OrderInv'
<1> DEFINE v == [NewView EXCEPT !.generation = g]
           answers == [r \in Reads |-> Response(r)]
           p == [poll[m] EXCEPT !.phase = "sent", !.reads = answers]
<1>1. v.shown = NewView.shown /\ v.messages = NewView.messages
  BY DEF NewView
<1>2. ViewUntil(v, server)
  BY <1>1, EmptyView, SameShown, OrderFacts DEF ViewUntil, PageInv, PageType
<1>3. poll[m] \in PollRecord
  BY DEF PageInv, PageType
<1>4. p.reads = answers
  BY <1>3 DEF PollRecord
<1>5. PollUntil(p, server)
  BY <1>4, OrderFacts DEF PollUntil, PageInv, PageType
<1>6. view'[m] = v /\ (poll'[m] = p \/ poll'[m] = poll[m])
  BY DEF Ended, PageInv, PageType
<1> HIDE DEF v, p
<1>7. /\ poll'[m].started < view'[m].generation
      /\ view' \in [Mounts -> ViewRecord] /\ poll' \in [Mounts -> PollRecord]
      /\ \A n \in Mounts : n # m => view'[n] = view[n] /\ poll'[n] = poll[n]
  BY EndedStep DEF PageInv
<1>8. PollFresh(poll'[m], view'[m])
  <2>1. poll'[m].started # view'[m].generation
    BY <1>7 DEF PollRecord, ViewRecord
  <2> QED BY <2>1 DEF PollFresh
<1>9. ViewUntil(view'[m], server) /\ PollUntil(poll'[m], server)
  BY <1>2, <1>5, <1>6 DEF OrderInv
<1>10. \A k \in Kinds : WriteUntil(writes'[m][k], server)
  BY DEF OrderInv
<1> QED BY <1>7, <1>8, <1>9, <1>10, OneMountStep

LEMMA RefreshOrder ==
  ASSUME PageInv, OrderInv, NEW m \in Mounts, NEW g \in Nat, Refresh(m, g),
         UNCHANGED <<server, view, writes>>
  PROVE  OrderInv'
<1> DEFINE p == [NoPoll EXCEPT !.phase = "sent", !.started = g]
<1>1. \A r \in Reads : p.reads[r] = NoAnswer
  BY DEF NoPoll
<1>2. poll' = [poll EXCEPT ![m] = p]
  BY DEF Refresh
<1> HIDE DEF p
<1>3. poll'[m] = p /\ \A n \in Mounts : n # m => poll'[n] = poll[n]
  BY <1>2 DEF PageInv, PageType
<1>4. PollFresh(poll'[m], view'[m]) /\ PollUntil(poll'[m], server)
  BY <1>1, <1>3, EmptyPollFresh
<1> QED BY <1>3, <1>4, OneMountStep DEF OrderInv

LEMMA ReadAnsweredOrder ==
  ASSUME PageInv, OrderInv, NEW m \in Mounts, NEW r \in Reads, ReadAnswered(m, r)
  PROVE  OrderInv'
<1> DEFINE q == [poll[m] EXCEPT !.reads[r] = Response(r)]
<1>1. poll[m] \in PollRecord /\ view[m] \in ViewRecord
  BY DEF PageInv, PageType
<1>2. /\ q.started = poll[m].started
      /\ \A x \in Reads : q.reads[x] = IF x = r THEN Response(r) ELSE poll[m].reads[x]
  BY <1>1 DEF PollRecord
<1>3. poll' = [poll EXCEPT ![m] = q]
  BY Zenon DEF ReadAnswered, PageInv, PageType
<1> HIDE DEF q
<1>4. poll'[m] = q /\ \A n \in Mounts : n # m => poll'[n] = poll[n]
  BY <1>3 DEF PageInv, PageType
<1>5. NotBefore(server, Response(r)) /\ NotBefore(Response(r), ShownBy(view[m], r))
  BY <1>1, ShownType, OrderFacts DEF PageInv, PageType, OrderInv, ViewUntil
<1>6. PollUntil(q, server)
  BY <1>2, <1>5 DEF OrderInv, PollUntil
<1>7. PollFresh(q, view[m])
  BY <1>2, <1>5 DEF OrderInv, PollFresh
<1> QED BY <1>4, <1>6, <1>7, OneMountStep DEF OrderInv, ReadAnswered

LEMMA PollEndsOrder ==
  ASSUME PageInv, OrderInv, NEW m \in Mounts, EndPoll(m), UNCHANGED <<server, writes>>,
         ViewUntil(view'[m], server),
         \A n \in Mounts : n # m => view'[n] = view[n]
  PROVE  OrderInv'
<1>1. poll'[m] = NoPoll /\ \A n \in Mounts : n # m => poll'[n] = poll[n]
  BY DEF EndPoll, PageInv, PageType
<1>2. PollFresh(poll'[m], view'[m]) /\ PollUntil(poll'[m], server)
  BY <1>1, EmptyPoll, EmptyPollFresh
<1> QED BY <1>1, <1>2, OneMountStep DEF OrderInv

\* A poll shows what it read, in order, or nothing.
LEMMA PollShows ==
  ASSUME PageInv, OrderInv, NEW m \in Mounts, PollReceive(m) \/ PollFails(m)
  PROVE  /\ \A r \in Reads : \/ ShownBy(view'[m], r) = ShownBy(view[m], r)
                             \/ /\ NotBefore(poll[m].reads[r], ShownBy(view[m], r))
                                /\ NotBefore(server, poll[m].reads[r])
                                /\ ShownBy(view'[m], r) = poll[m].reads[r]
         /\ \A n \in Mounts : n # m => view'[n] = view[n]
<1>1. view[m] \in ViewRecord /\ poll[m] \in PollRecord
  BY DEF PageInv, PageType
<1>2. CASE PollReceive(m)
  <2> DEFINE reads == poll[m].reads
  <2>1. PICK focused \in Kinds \cup {"none"} :
          view' = IF poll[m].started = view[m].generation /\ SameRun(reads)
                  THEN [view EXCEPT ![m] = Accept(view[m], reads, focused)]
                  ELSE view
    BY Zenon, <1>2 DEF PollReceive, PageInv, PageType
  <2>2. \A r \in Reads : reads[r] # NoAnswer
    BY <1>2 DEF PollReceive
  <2>3. \A r \in Reads : NotBefore(server, reads[r])
    BY <2>2 DEF OrderInv, PollUntil
  <2>4. CASE poll[m].started = view[m].generation /\ SameRun(reads)
    <3> DEFINE v == Accept(view[m], reads, focused)
    <3>1. \A r \in Reads : NotBefore(reads[r], ShownBy(view[m], r))
      BY <2>2, <2>4 DEF OrderInv, PollFresh
    <3>2. \A r \in Reads : ShownBy(v, r) = reads[r]
      <4>1. /\ v.messages = reads["messages"]
            /\ v.shown = [k \in Kinds |-> IF k = "count" THEN reads["vessels"]
                                                         ELSE reads["metadata"]]
        BY <1>1 DEF Accept, ViewRecord
      <4> HIDE DEF v, reads
      <4> QED BY <4>1 DEF ShownBy, Reads, Kinds
    <3>3. view' = [view EXCEPT ![m] = v]
      BY <2>1, <2>4
    <3> HIDE DEF v
    <3>4. view'[m] = v /\ \A n \in Mounts : n # m => view'[n] = view[n]
      BY <3>3 DEF PageInv, PageType
    <3> QED BY <2>3, <3>1, <3>2, <3>4
  <2>5. CASE ~(poll[m].started = view[m].generation /\ SameRun(reads))
    BY <2>1, <2>5
  <2> QED BY <2>4, <2>5
<1>3. CASE PollFails(m)
  <2> DEFINE v == [view[m] EXCEPT !.stale = TRUE]
  <2>1. v.shown = view[m].shown /\ v.messages = view[m].messages
    BY <1>1 DEF ViewRecord
  <2>2. view' = view \/ view' = [view EXCEPT ![m] = v]
    BY <1>3 DEF PollFails, PageInv, PageType
  <2> HIDE DEF v
  <2>3. view'[m] \in {view[m], v} /\ \A n \in Mounts : n # m => view'[n] = view[n]
    BY <2>2 DEF PageInv, PageType
  <2> QED BY <2>1, <2>3, SameShown
<1> QED BY <1>2, <1>3

LEMMA PollOrder ==
  ASSUME PageInv, OrderInv, NEW m \in Mounts, PollReceive(m) \/ PollFails(m)
  PROVE  OrderInv'
<1>1. EndPoll(m) /\ UNCHANGED <<server, writes>>
  BY DEF PollReceive, PollFails
<1>2. ViewUntil(view'[m], server)
  BY PollShows DEF OrderInv, ViewUntil
<1> QED BY <1>1, <1>2, PollShows, PollEndsOrder

\* A step of a live mount other than a poll: the generation stays and so does
\* what is shown, or the poll that is pending falls behind.
LEMMA ViewOrder ==
  ASSUME PageInv, OrderInv, NEW m \in Mounts, NEW v,
         ViewUntil(v, server),
         \/ v.generation = view[m].generation + 1
         \/ /\ v.generation = view[m].generation
            /\ v.shown = view[m].shown /\ v.messages = view[m].messages,
         view' = [view EXCEPT ![m] = v],
         UNCHANGED <<server, poll>>,
         \A n \in Mounts : n # m => writes'[n] = writes[n],
         \A k \in Kinds : WriteUntil(writes'[m][k], server)
  PROVE  OrderInv'
<1>1. view'[m] = v /\ \A n \in Mounts : n # m => view'[n] = view[n]
  BY DEF PageInv, PageType
<1>2. PollFresh(poll[m], v)
  <2>1. CASE v.generation = view[m].generation + 1
    <3>1. poll[m].started <= view[m].generation /\ poll[m].started \in Nat
          /\ view[m].generation \in Nat
      BY DEF PageInv, PageType, PollRecord, ViewRecord, PollsBehind, PollBehind
    <3> QED BY <2>1, <3>1 DEF PollFresh
  <2>2. CASE /\ v.generation = view[m].generation
             /\ v.shown = view[m].shown /\ v.messages = view[m].messages
    BY <2>2, SameShown DEF OrderInv, PollFresh
  <2> QED BY <2>1, <2>2
<1> QED BY <1>1, <1>2, OneMountStep DEF OrderInv

\* A write of one kind changes.
LEMMA WriteOrder ==
  ASSUME PageInv, OrderInv, NEW m \in Mounts, NEW k \in Kinds, NEW w,
         writes' = [writes EXCEPT ![m][k] = w],
         WriteUntil(w, server)
  PROVE  /\ \A n \in Mounts : n # m => writes'[n] = writes[n]
         /\ \A j \in Kinds : WriteUntil(writes'[m][j], server)
<1>1. \A j \in Kinds : writes'[m][j] = IF j = k THEN w ELSE writes[m][j]
  BY DEF PageInv, PageType
<1>2. \A n \in Mounts : n # m => writes'[n] = writes[n]
  BY DEF PageInv, PageType
<1> QED BY <1>1, <1>2 DEF OrderInv

LEMMA InputOrder ==
  ASSUME PageInv, OrderInv, NEW m \in Mounts, NEW k \in Kinds, NEW value \in Values[k],
         Input(m, k, value)
  PROVE  OrderInv'
<1> DEFINE v == [view[m] EXCEPT !.input[k] = value, !.dirty[k] = TRUE]
<1>1. view[m] \in ViewRecord
  BY DEF PageInv, PageType
<1>2. v.generation = view[m].generation /\ v.shown = view[m].shown /\ v.messages = view[m].messages
  BY <1>1 DEF ViewRecord
<1>3. view' = [view EXCEPT ![m] = v]
  BY DEF Input, PageInv, PageType
<1> HIDE DEF v
<1>4. ViewUntil(v, server)
  BY <1>2, SameShown DEF OrderInv, ViewUntil
<1>5. UNCHANGED <<server, poll, writes>>
  BY DEF Input
<1> QED BY <1>2, <1>3, <1>4, <1>5, ViewOrder DEF OrderInv

LEMMA WriteStartsOrder ==
  ASSUME PageInv, OrderInv, NEW m \in Mounts, NEW k \in Kinds, NEW v \in ViewRecord,
         v.generation = view[m].generation, v.shown = view[m].shown,
         v.messages = view[m].messages,
         Write(m, k, v), UNCHANGED <<server, poll>>
  PROVE  OrderInv'
<1> DEFINE u == [v EXCEPT !.saving[k] = TRUE, !.generation = @ + 1]
           w == [NoWrite EXCEPT !.phase = "sent", !.value = v.input[k]]
<1>1. u.generation = v.generation + 1 /\ u.shown = v.shown /\ u.messages = v.messages
  BY DEF ViewRecord
<1>2. w.phase = "sent"
  BY DEF NoWrite
<1>3. view' = [view EXCEPT ![m] = u] /\ writes' = [writes EXCEPT ![m][k] = w]
  BY DEF Write
<1> HIDE DEF u, w
<1>4. ViewUntil(u, server)
  BY <1>1, SameShown DEF OrderInv, ViewUntil
<1>5. WriteUntil(w, server)
  BY <1>2 DEF WriteUntil
<1> QED BY <1>1, <1>3, <1>4, <1>5, WriteOrder, ViewOrder

LEMMA SubmitOrder ==
  ASSUME PageInv, OrderInv, NEW m \in Mounts, NEW k \in Kinds, Submit(m, k)
  PROVE  OrderInv'
BY WriteStartsOrder DEF Submit, PageInv, PageType

LEMMA PresetOrder ==
  ASSUME PageInv, OrderInv, NEW m \in Mounts, NEW value \in Values["speed"], Preset(m, value)
  PROVE  OrderInv'
<1> DEFINE v == [view[m] EXCEPT !.input["speed"] = value, !.dirty["speed"] = TRUE]
<1>1. view[m] \in ViewRecord /\ "speed" \in Kinds /\ value \in Nat
  BY ManagerAssumption DEF PageInv, PageType, Kinds
<1>2. /\ [view[m].input EXCEPT !["speed"] = value] \in [Kinds -> Nat]
      /\ [view[m].dirty EXCEPT !["speed"] = TRUE] \in [Kinds -> BOOLEAN]
  BY <1>1 DEF ViewRecord
<1>3. /\ v \in ViewRecord /\ v.generation = view[m].generation
      /\ v.shown = view[m].shown /\ v.messages = view[m].messages
  BY <1>1, <1>2 DEF ViewRecord
<1>4. Write(m, "speed", v)
  BY DEF Preset
<1> HIDE DEF v
<1> QED BY <1>1, <1>3, <1>4, WriteStartsOrder DEF Preset

\* A write ends with its answer, or with what was shown.
LEMMA WriteEndsOrder ==
  ASSUME PageInv, OrderInv, NEW m \in Mounts, NEW k \in Kinds, NEW v \in ViewRecord,
         v.generation = view[m].generation, ViewUntil(v, server),
         view' = IF Live(m) THEN [view EXCEPT ![m] = EndWrite(v, k)] ELSE view,
         writes' = [writes EXCEPT ![m][k] = NoWrite],
         UNCHANGED <<server, poll>>
  PROVE  OrderInv'
<1> DEFINE u == EndWrite(v, k)
<1>1. u.generation = v.generation + 1
  BY EndWriteType
<1>2. u.shown = v.shown /\ u.messages = v.messages
  BY DEF EndWrite, ViewRecord
<1>3. WriteUntil(NoWrite, server)
  BY DEF NoWrite, WriteUntil
<1>4. /\ \A n \in Mounts : n # m => writes'[n] = writes[n]
      /\ \A j \in Kinds : WriteUntil(writes'[m][j], server)
  BY <1>3, WriteOrder
<1>5. CASE Live(m)
  <2>1. view' = [view EXCEPT ![m] = u]
    BY <1>5
  <2> HIDE DEF u
  <2>2. ViewUntil(u, server)
    BY <1>2, SameShown DEF ViewUntil
  <2> QED BY <1>1, <1>4, <2>1, <2>2, ViewOrder
<1>6. CASE ~Live(m)
  BY <1>4, <1>6, OneMountStep DEF OrderInv
<1> QED BY <1>5, <1>6

LEMMA WriteReceiveOrder ==
  ASSUME PageInv, OrderInv, NEW m \in Mounts, NEW k \in Kinds, WriteReceive(m, k)
  PROVE  OrderInv'
<1> DEFINE s == writes[m][k].answer
           c == Confirm(view[m], k, s)
           v == IF s.run = view[m].runId THEN c ELSE view[m]
<1>1. /\ view[m] \in ViewRecord /\ s \in Reading
      /\ ViewUntil(view[m], server) /\ NotBefore(server, s)
  BY DEF WriteReceive, PageInv, PageType, OrderInv, WriteUntil
<1>2. c \in ViewRecord
  BY <1>1, ConfirmType
<1>3. /\ c.generation = view[m].generation
      /\ c.messages = view[m].messages
      /\ c.shown = [view[m].shown EXCEPT ![k] = s]
  BY <1>1 DEF Confirm, ViewRecord
<1>4. view[m].shown \in [Kinds -> Reading]
  BY <1>1 DEF ViewRecord
<1>5. view' = (IF Live(m) THEN [view EXCEPT ![m] = EndWrite(v, k)] ELSE view)
      /\ writes' = [writes EXCEPT ![m][k] = NoWrite]
      /\ UNCHANGED <<server, poll>>
  BY DEF WriteReceive
<1> HIDE DEF c, s
<1>6. ViewUntil(c, server)
  BY <1>1, <1>3, <1>4 DEF ViewUntil, ShownBy, Reads, Kinds
<1>7. v \in ViewRecord /\ v.generation = view[m].generation /\ ViewUntil(v, server)
  BY <1>1, <1>2, <1>3, <1>6
<1> QED BY <1>5, <1>7, WriteEndsOrder

LEMMA WriteFailsOrder ==
  ASSUME PageInv, OrderInv, NEW m \in Mounts, NEW k \in Kinds, WriteFails(m, k)
  PROVE  OrderInv'
<1>1. view' = IF Live(m) THEN [view EXCEPT ![m] = EndWrite(view[m], k)] ELSE view
  BY DEF WriteFails, PageInv, PageType
<1> QED BY <1>1, WriteEndsOrder DEF WriteFails, OrderInv, PageInv, PageType

LEMMA WriteAnsweredOrder ==
  ASSUME PageInv, OrderInv, NEW m \in Mounts, NEW k \in Kinds, WriteAnswered(m, k)
  PROVE  OrderInv'
<1> DEFINE w == [writes[m][k] EXCEPT !.phase = "answered", !.answer = Shown(k, server)]
<1>1. w.answer = Shown(k, server)
  BY DEF PageInv, PageType, WriteRecord
<1>2. writes' = [writes EXCEPT ![m][k] = w]
  BY DEF WriteAnswered, PageInv, PageType
<1> HIDE DEF w
<1>3. WriteUntil(w, server)
  BY <1>1, OrderFacts DEF WriteUntil, PageInv, PageType
<1>4. /\ \A n \in Mounts : n # m => writes'[n] = writes[n]
      /\ \A j \in Kinds : WriteUntil(writes'[m][j], server)
  BY <1>2, <1>3, WriteOrder
<1>5. UNCHANGED <<server, view, poll>>
  BY DEF WriteAnswered
<1> QED BY <1>4, <1>5, OneMountStep DEF OrderInv

LEMMA OtherCommandsOrder ==
  ASSUME PageInv, OrderInv, NEW k \in Kinds, NEW value \in Values[k], OtherCommands(k, value)
  PROVE  OrderInv'
<1>1. Command(k, value) /\ UNCHANGED <<view, poll, writes>>
  BY DEF OtherCommands, pageVars
<1>2. server'.run = server.run /\ server'.now = server.now + 1
  BY <1>1, ManagerAssumption, CommandRun DEF PageInv, PageType
<1> QED BY <1>1, <1>2, ServerStep

LEMMA WriteCommandsOrder ==
  ASSUME PageInv, OrderInv, NEW m \in Mounts, NEW k \in Kinds, WriteCommands(m, k)
  PROVE  OrderInv'
<1> DEFINE old == writes[m][k]
           w == [old EXCEPT !.phase = "commanded", !.at = server'.now]
<1>1. old \in WriteRecord /\ old.value \in Nat
  BY DEF PageInv, PageType, WriteRecord
<1>2. server'.run = server.run /\ server'.now = server.now + 1
  BY <1>1, CommandRun DEF PageInv, PageType, WriteCommands
<1>3. w.phase = "commanded"
  BY <1>1 DEF WriteRecord
<1>4. writes' = [writes EXCEPT ![m][k] = w]
  BY DEF WriteCommands, PageInv, PageType
<1> HIDE DEF w, old
<1>5. \A n \in Mounts, j \in Kinds :
        writes'[n][j] = IF n = m /\ j = k THEN w ELSE writes[n][j]
  BY Zenon, <1>4 DEF PageInv, PageType
<1>6. \A n \in Mounts, j \in Kinds :
        writes'[n][j].phase = "answered" =>
          writes[n][j].phase = "answered" /\ writes'[n][j].answer = writes[n][j].answer
  BY <1>3, <1>5
<1>7. UNCHANGED <<view, poll>>
  BY DEF WriteCommands
<1> QED BY <1>2, <1>6, <1>7, ServerStep

LEMMA RestartOrder ==
  ASSUME PageInv, OrderInv, Restart
  PROVE  OrderInv'
<1> DEFINE lost == [NoWrite EXCEPT !.phase = "lost"]
<1>1. server'.run = server.run + 1
  BY DEF Restart, NewRun
<1>2. \A m \in Mounts, k \in Kinds :
        writes'[m][k] = IF writes[m][k].phase = "commanded" THEN lost ELSE writes[m][k]
  BY DEF Restart
<1>3. lost.phase = "lost"
  BY DEF NoWrite
<1> HIDE DEF lost
<1>4. \A m \in Mounts, k \in Kinds :
        writes'[m][k].phase = "answered" =>
          writes[m][k].phase = "answered" /\ writes'[m][k].answer = writes[m][k].answer
  BY <1>2, <1>3
<1>5. UNCHANGED <<view, poll>>
  BY DEF Restart
<1> QED BY <1>1, <1>4, <1>5, ServerStep

-----------------------------------------------------------------------------
(***************************************************************************)
(* The theorem                                                             *)
(***************************************************************************)
LEMMA InitOrder == ASSUME Init PROVE OrderInv
<1>1. server \in ServerRecord
  BY InitInv DEF PageInv, PageType
<1> SUFFICES ASSUME NEW m \in Mounts
             PROVE  /\ ViewUntil(view[m], server) /\ PollUntil(poll[m], server)
                    /\ \A k \in Kinds : WriteUntil(writes[m][k], server)
                    /\ PollFresh(poll[m], view[m])
  BY DEF OrderInv
<1>2. view[m] = NewView /\ poll[m] = NoPoll /\ \A k \in Kinds : writes[m][k] = NoWrite
  BY DEF Init
<1>3. ViewUntil(view[m], server)
  BY <1>1, <1>2, EmptyView, OrderFacts DEF ViewUntil
<1>4. PollUntil(poll[m], server) /\ PollFresh(poll[m], view[m])
  BY <1>2, EmptyPoll, EmptyPollFresh
<1>5. \A k \in Kinds : WriteUntil(writes[m][k], server)
  BY <1>2, Constants DEF WriteUntil
<1> QED BY <1>3, <1>4, <1>5

LEMMA NextOrder == ASSUME PageInv, OrderInv, [Next]_vars PROVE OrderInv'
<1>1. CASE \E k \in Kinds : \E value \in Values[k] : OtherCommands(k, value)
  BY <1>1, OtherCommandsOrder
<1>2. CASE Restart
  BY <1>2, RestartOrder
<1>3. CASE \E m \in Mounts : MountNext(m)
  <2>1. PICK m \in Mounts : MountNext(m)
    BY <1>3
  <2>2. CASE Mount(m)
    BY <2>2, RefreshOrder DEF Mount
  <2>3. CASE MountFails(m)
    <3>1. poll[m].started < 1
      BY <2>3, Constants
      DEF MountFails, ClaimFails, Claimable, PageInv, PollsBehind, PollBehind, Unborn
    <3> QED BY <2>3, <3>1, EndedOrder DEF MountFails
  <2>4. CASE Unmount(m)
    <3>1. /\ view[m].generation + 1 \in Nat
          /\ poll[m].started < view[m].generation + 1
      BY DEF PageInv, PageType, PollRecord, ViewRecord, PollsBehind, PollBehind
    <3> QED BY <2>4, <3>1, EndedOrder DEF Unmount
  <2>5. CASE TimerFires(m)
    <3>1. view[m].generation \in Nat
      BY DEF PageInv, PageType, ViewRecord
    <3> QED BY <2>5, <3>1, RefreshOrder DEF TimerFires
  <2>6. CASE (\E r \in Reads : ReadAnswered(m, r)) \/ PollReceive(m) \/ PollFails(m)
    BY <2>6, ReadAnsweredOrder, PollOrder
  <2>7. CASE \E k \in Kinds : \E value \in Values[k] : Input(m, k, value)
    BY <2>7, InputOrder
  <2>8. CASE \E k \in Kinds : \/ Submit(m, k) \/ WriteCommands(m, k) \/ WriteAnswered(m, k)
                             \/ WriteReceive(m, k) \/ WriteFails(m, k)
    BY <2>8, SubmitOrder, WriteCommandsOrder, WriteAnsweredOrder, WriteReceiveOrder, WriteFailsOrder
  <2>9. CASE \E value \in Values["speed"] : Preset(m, value)
    BY <2>9, PresetOrder
  <2> QED BY <2>1, <2>2, <2>3, <2>4, <2>5, <2>6, <2>7, <2>8, <2>9 DEF MountNext
<1>4. CASE UNCHANGED vars
  BY <1>4 DEF vars, pageVars, OrderInv
<1> QED BY <1>1, <1>2, <1>3, <1>4 DEF Next

\* What a poll that ends leaves shown was read no earlier than what was shown.
Advance ==
  \A m \in Mounts : poll[m] # NoPoll /\ poll'[m] = NoPoll =>
    /\ NotBefore(view'[m].messages, view[m].messages)
    /\ \A k \in Kinds : NotBefore(view'[m].shown[k], view[m].shown[k])

\* A poll that is sent is not NoPoll.
LEMMA RefreshSends ==
  ASSUME PageInv, NEW n \in Mounts, NEW g \in Nat, Refresh(n, g), NEW m \in Mounts
  PROVE  poll'[m] = poll[m] \/ poll'[m] # NoPoll
<1> DEFINE p == [NoPoll EXCEPT !.phase = "sent", !.started = g]
<1>1. p.phase = "sent"
  BY SentPoll
<1>2. poll' = [poll EXCEPT ![n] = p]
  BY DEF Refresh
<1> HIDE DEF p
<1> QED BY <1>1, <1>2, Constants DEF PageInv, PageType

LEMMA EndedSends ==
  ASSUME PageInv, NEW n \in Mounts, NEW g, NEW started \in BOOLEAN, Ended(n, g, started),
         NEW m \in Mounts
  PROVE  poll'[m] = poll[m] \/ poll'[m] # NoPoll
<1> DEFINE p == [poll[n] EXCEPT !.phase = "sent", !.reads = [r \in Reads |-> Response(r)]]
<1>1. p.phase = "sent"
  BY DEF PageInv, PageType, PollRecord
<1>2. poll' = [poll EXCEPT ![n] = p] \/ poll' = poll
  BY DEF Ended, PageInv, PageType
<1> HIDE DEF p
<1> QED BY <1>1, <1>2, Constants DEF PageInv, PageType

\* Only an answer or a failure ends a poll.
LEMMA PollEnds ==
  ASSUME PageInv, [Next]_vars, NEW m \in Mounts, poll[m] # NoPoll, poll'[m] = NoPoll
  PROVE  PollReceive(m) \/ PollFails(m)
<1>1. CASE \E k \in Kinds : \E value \in Values[k] : OtherCommands(k, value)
  BY <1>1 DEF OtherCommands, pageVars
<1>2. CASE Restart
  BY <1>2 DEF Restart
<1>3. CASE \E n \in Mounts : MountNext(n)
  <2>1. PICK n \in Mounts : MountNext(n)
    BY <1>3
  <2>2. CASE Mount(n)
    BY <2>2, RefreshSends DEF Mount
  <2>3. CASE MountFails(n)
    BY <2>3, EndedSends DEF MountFails
  <2>4. CASE Unmount(n)
    BY <2>4, EndedSends DEF Unmount
  <2>5. CASE TimerFires(n)
    <3>1. view[n].generation \in Nat
      BY DEF PageInv, PageType, ViewRecord
    <3> QED BY <2>5, <3>1, RefreshSends DEF TimerFires
  <2>6. CASE \E r \in Reads : ReadAnswered(n, r)
    <3>1. PICK r \in Reads : ReadAnswered(n, r)
      BY <2>6
    <3> DEFINE q == [poll[n] EXCEPT !.reads[r] = Response(r)]
    <3>2. q.phase = "sent"
      BY <3>1 DEF ReadAnswered, PageInv, PageType, PollRecord
    <3>3. poll' = [poll EXCEPT ![n] = q]
      BY Zenon, <3>1 DEF ReadAnswered, PageInv, PageType
    <3> HIDE DEF q
    <3> QED BY <3>2, <3>3, Constants DEF PageInv, PageType
  <2>7. CASE PollReceive(n) \/ PollFails(n)
    <3>1. EndPoll(n)
      BY <2>7 DEF PollReceive, PollFails
    <3>2. n # m => poll'[m] = poll[m]
      BY <3>1 DEF EndPoll, PageInv, PageType
    <3> QED BY <2>7, <3>2
  <2>8. CASE \E k \in Kinds : \E value \in Values[k] : Input(n, k, value)
    BY <2>8 DEF Input
  <2>9. CASE \E k \in Kinds : \/ Submit(n, k) \/ WriteCommands(n, k) \/ WriteAnswered(n, k)
                             \/ WriteReceive(n, k) \/ WriteFails(n, k)
    <3>1. poll' = poll
      BY Zenon, <2>9 DEF Submit, WriteCommands, WriteAnswered, WriteReceive, WriteFails
    <3> QED BY <3>1
  <2>10. CASE \E value \in Values["speed"] : Preset(n, value)
    BY <2>10 DEF Preset
  <2> QED BY <2>1, <2>2, <2>3, <2>4, <2>5, <2>6, <2>7, <2>8, <2>9, <2>10 DEF MountNext
<1>4. CASE UNCHANGED vars
  BY <1>4 DEF vars, pageVars
<1> QED BY <1>1, <1>2, <1>3, <1>4 DEF Next

LEMMA AdvanceStep == ASSUME PageInv, OrderInv, [Next]_vars PROVE Advance
<1> SUFFICES ASSUME NEW m \in Mounts, poll[m] # NoPoll, poll'[m] = NoPoll
             PROVE  /\ NotBefore(view'[m].messages, view[m].messages)
                    /\ \A k \in Kinds : NotBefore(view'[m].shown[k], view[m].shown[k])
  BY DEF Advance
<1>1. \A r \in Reads : \/ ShownBy(view'[m], r) = ShownBy(view[m], r)
                       \/ NotBefore(ShownBy(view'[m], r), ShownBy(view[m], r))
  BY PollEnds, PollShows
<1>2. \A r \in Reads : ShownBy(view[m], r) \in Reading
  BY ShownType DEF PageInv, PageType
<1>3. \A r \in Reads : NotBefore(ShownBy(view'[m], r), ShownBy(view[m], r))
  BY <1>1, <1>2, OrderFacts DEF PageInv, PageType
<1>4. \A v : /\ ShownBy(v, "vessels") = v.shown["count"]
             /\ ShownBy(v, "metadata") = v.shown["speed"]
             /\ ShownBy(v, "messages") = v.messages
  BY DEF ShownBy
<1> QED BY <1>3, <1>4 DEF Reads, Kinds

\* No poll undoes what a write confirmed, or shows an older reading than the one
\* that is shown, although polls and writes overlap (generation in manager.js).
THEOREM AdvanceCorrect == Spec => PollsAdvance
<1>1. Init => OrderInv
  BY InitOrder
<1>2. PageInv /\ OrderInv /\ [Next]_vars => OrderInv'
  BY NextOrder
<1>3. Spec => []OrderInv
  BY <1>1, <1>2, PageInvariant, PTL DEF Spec
<1>4. PageInv /\ OrderInv /\ [Next]_vars => [Advance]_vars
  BY AdvanceStep
<1>5. Spec => [][Advance]_vars
  BY <1>3, <1>4, PageInvariant, PTL DEF Spec
<1> QED BY <1>5 DEF PollsAdvance, Advance
=============================================================================
