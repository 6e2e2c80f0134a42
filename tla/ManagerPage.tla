---------------------------- MODULE ManagerPage ----------------------------
(***************************************************************************)
(* The fleet part of the manager page (manager.js) on its runtime, against *)
(* the simulator's fleet and time handlers (api.go), which other clients   *)
(* use too and which may restart.                                          *)
(*                                                                         *)
(* A poll is three reads, answered one by one.  A write of the count or of *)
(* the speed is a command and then a read of the state, with the driver's  *)
(* lock released in between.  Writes of both kinds and polls overlap, and  *)
(* answers may be late or lost.  A write that the page gave up may still   *)
(* be handled: from then on it is a command of some other client.          *)
(*                                                                         *)
(* Each JavaScript task between two awaits is one action.  The simulator's *)
(* time advances by one with each command, which settles it first.         *)
(***************************************************************************)
EXTENDS PageRuntime, Sequences

CONSTANTS
  Values,     \* values that each kind of setting is given
  Initial,    \* settings of a new run
  Bounds,     \* bounds of a behaviour, which picks one of them:
              \*   commands for each run, mounts, inputs and submits of the user
  Starts      \* can a start function of the component throw?

Kinds == {"count", "speed"}
Reads == {"vessels", "messages", "metadata"}

ASSUME ManagerAssumption ==
  /\ Values \in [Kinds -> SUBSET Nat] /\ Initial \in [Kinds -> Nat]
  /\ \A b \in Bounds : /\ b.commands \in Seq(Nat) /\ b.commands # <<>>
                        /\ b.mounts \in Mounts /\ b.edits \in Nat
  /\ Starts \subseteq {"return", "throw"}

VARIABLES
  server,     \* run, time and settings of the simulator
  view,       \* the variables and the fields of each mount
  poll,       \* the poll of each mount
  writes,     \* the write of each mount and kind
  edits,      \* inputs and submits so far
  bound       \* the bounds of this behaviour

pageVars == <<view, poll, writes, edits, bound>>
vars == <<runtimeVars, server, pageVars>>

NoAnswer == [run |-> 0]
Nothing == [run |-> 0, now |-> 0, value |-> 0]
NoPoll == [phase |-> "none", started |-> 0, reads |-> [r \in Reads |-> NoAnswer]]
NoWrite == [phase |-> "none", value |-> 0, at |-> 0, answer |-> NoAnswer]

\* What the page shows of a setting, and when it was read.
Shown(k, s) == [run |-> s.run, now |-> s.now, value |-> s[k]]

NewRun(run) ==
  [run |-> run, now |-> 0, count |-> Initial["count"], speed |-> Initial["speed"]]

\* shown: the fleet line and the clock; the clock also says whether it is stale.
NewView ==
  [runId |-> 0, initialized |-> FALSE, generation |-> 0, stale |-> FALSE,
   shown |-> [k \in Kinds |-> Nothing], messages |-> Nothing,
   input |-> [k \in Kinds |-> 0], dirty |-> [k \in Kinds |-> FALSE],
   saving |-> [k \in Kinds |-> FALSE]]

Init ==
  /\ RuntimeInit
  /\ server = NewRun(1)
  /\ view = [m \in Mounts |-> NewView]
  /\ poll = [m \in Mounts |-> NoPoll]
  /\ writes = [m \in Mounts |-> [k \in Kinds |-> NoWrite]]
  /\ edits = 0
  /\ bound \in Bounds

-----------------------------------------------------------------------------
(***************************************************************************)
(* The simulator and its handlers                                          *)
(***************************************************************************)
CanCommand == server.now < bound.commands[server.run]

\* The driver's SetCount or SetSpeed.
Command(k, value) ==
  /\ CanCommand
  /\ server' = [server EXCEPT !.now = @ + 1, ![k] = value]

OtherCommands(k, value) ==
  /\ Command(k, value)
  /\ UNCHANGED <<runtimeVars, pageVars>>

\* A request that a handler was working on ends with the process.
Restart ==
  /\ server.run < Len(bound.commands)
  /\ server' = NewRun(server.run + 1)
  /\ writes' = [m \in Mounts |-> [k \in Kinds |->
                  IF writes[m][k].phase = "commanded" THEN [NoWrite EXCEPT !.phase = "lost"]
                  ELSE writes[m][k]]]
  /\ UNCHANGED <<runtimeVars, view, poll, edits, bound>>

\* Mutant: the state is read before the command.
WriteCommandsRead(m, k) ==
  /\ writes[m][k].phase = "sent"
  /\ Command(k, writes[m][k].value)
  /\ writes' = [writes EXCEPT ![m][k].phase = "answered", ![m][k].at = server'.now,
                              ![m][k].answer = Shown(k, server)]
  /\ UNCHANGED <<runtimeVars, view, poll, edits, bound>>

\* setCount, setTime up to the driver's return.
WriteCommands(m, k) ==
  /\ writes[m][k].phase = "sent"
  /\ Command(k, writes[m][k].value)
  /\ writes' = [writes EXCEPT ![m][k].phase = "commanded", ![m][k].at = server'.now]
  /\ UNCHANGED <<runtimeVars, view, poll, edits, bound>>

\* The rest of setCount and setTime: Fleet or Metadata as it is by now.
WriteAnswered(m, k) ==
  /\ writes[m][k].phase = "commanded"
  /\ writes' = [writes EXCEPT ![m][k].phase = "answered", ![m][k].answer = Shown(k, server)]
  /\ UNCHANGED <<runtimeVars, server, view, poll, edits, bound>>

\* fleetResponse, historyResponse, metadataResponse
Response(r) ==
  CASE r = "vessels" -> Shown("count", server)
    [] r = "metadata" -> Shown("speed", server)
    [] r = "messages" -> [run |-> server.run, now |-> server.now, value |-> 0]

\* fleet, history, metadata
ReadAnswered(m, r) ==
  /\ poll[m].phase = "sent"
  /\ poll[m].reads[r] = NoAnswer
  /\ poll' = [poll EXCEPT ![m].reads[r] = Response(r)]
  /\ UNCHANGED <<runtimeVars, server, view, writes, edits, bound>>

-----------------------------------------------------------------------------
(***************************************************************************)
(* Mounting and ending the page                                            *)
(***************************************************************************)
\* refresh up to its requests.
Refresh(m, generation) ==
  poll' = [poll EXCEPT ![m] = [NoPoll EXCEPT !.phase = "sent", !.started = generation]]

\* mountManager: startFleet polls at once.
Mount(m) ==
  /\ m <= bound.mounts
  /\ "return" \in Starts
  /\ Claim(m)
  /\ Refresh(m, 0)
  /\ UNCHANGED <<server, view, writes, edits, bound>>

\* The nodes are dropped, and of the variables an ended mount reads only the
\* generation.  When and what its poll is answered makes no difference then: the
\* answers are taken for given, and PollReceive and PollFails come at any time.
Ended(m, generation, started) ==
  /\ view' = [view EXCEPT ![m] = [NewView EXCEPT !.generation = generation]]
  /\ poll' = IF started
             THEN [poll EXCEPT ![m].phase = "sent", ![m].reads = [r \in Reads |-> Response(r)]]
             ELSE poll

\* A start function throws, before or after the first poll was sent.
MountFails(m) ==
  /\ m <= bound.mounts
  /\ "throw" \in Starts
  /\ ClaimFails(m)
  /\ \E started \in BOOLEAN : Ended(m, 1, started)
  /\ UNCHANGED <<server, writes, edits, bound>>

\* Mutant: destroy leaves the generation.
UnmountQuietly(m) ==
  /\ Destroy(m)
  /\ Ended(m, view[m].generation, poll[m] # NoPoll)
  /\ UNCHANGED <<server, writes, edits, bound>>

\* The host calls destroy; startFleet's cleanup advances the generation.
Unmount(m) ==
  /\ Destroy(m)
  /\ Ended(m, view[m].generation + 1, poll[m] # NoPoll)
  /\ UNCHANGED <<server, writes, edits, bound>>

-----------------------------------------------------------------------------
(***************************************************************************)
(* The user                                                                *)
(***************************************************************************)
Edit == edits < bound.edits /\ edits' = edits + 1

\* updateControls: a field is enabled once its run was shown, a button while
\* no write of its kind is pending.
FieldEnabled(m) == Live(m) /\ view[m].initialized
ButtonEnabled(m, k) == FieldEnabled(m) /\ ~view[m].saving[k]

Input(m, k, value) ==
  /\ Edit
  /\ FieldEnabled(m)
  /\ view' = [view EXCEPT ![m].input[k] = value, ![m].dirty[k] = TRUE]
  /\ UNCHANGED <<runtimeVars, server, poll, writes, bound>>

\* write up to its request; v is the view with the submitted field.
Write(m, k, v) ==
  /\ view' = [view EXCEPT ![m] = [v EXCEPT !.saving[k] = TRUE, !.generation = @ + 1]]
  /\ writes' = [writes EXCEPT ![m][k] = [NoWrite EXCEPT !.phase = "sent", !.value = v.input[k]]]

\* A form is submitted.
Submit(m, k) ==
  /\ Edit
  /\ ButtonEnabled(m, k)
  /\ Write(m, k, view[m])
  /\ UNCHANGED <<runtimeVars, server, poll, bound>>

\* A preset button fills the speed in and submits it.
Preset(m, value) ==
  /\ Edit
  /\ ButtonEnabled(m, "speed")
  /\ Write(m, "speed", [view[m] EXCEPT !.input["speed"] = value, !.dirty["speed"] = TRUE])
  /\ UNCHANGED <<runtimeVars, server, poll, bound>>

-----------------------------------------------------------------------------
(***************************************************************************)
(* The answers to a write                                                  *)
(***************************************************************************)
\* Mutant: a write advances the generation only at its start.
EndWriteUncounted(v, k) == [v EXCEPT !.saving[k] = FALSE]

\* The finally block of write.
EndWrite(v, k) == [v EXCEPT !.saving[k] = FALSE, !.generation = @ + 1]

\* The listeners' show: the field, its line, and for the speed a fresh clock.
Confirm(v, k, s) ==
  [v EXCEPT !.dirty[k] = FALSE, !.input[k] = s.value, !.shown[k] = s,
            !.stale = @ /\ k # "speed"]

\* An answer of another run than the one shown is not shown.
WriteReceive(m, k) ==
  LET w == writes[m][k]
      v == IF w.answer.run = view[m].runId THEN Confirm(view[m], k, w.answer) ELSE view[m]
  IN /\ w.phase = "answered"
     /\ view' = IF Live(m) THEN [view EXCEPT ![m] = EndWrite(v, k)] ELSE view
     /\ writes' = [writes EXCEPT ![m][k] = NoWrite]
     /\ UNCHANGED <<runtimeVars, server, poll, edits, bound>>

\* Mutant: the flag is reset only after an answer.
WriteFailsSaving(m, k) ==
  /\ writes[m][k].phase # "none"
  /\ writes' = [writes EXCEPT ![m][k] = NoWrite]
  /\ UNCHANGED <<runtimeVars, server, view, poll, edits, bound>>

\* A value that the handler refuses, a driver that stops or is cancelled, an
\* error, a timeout, or the abort by destroy: the draft stays.
WriteFails(m, k) ==
  /\ writes[m][k].phase # "none"
  /\ view' = IF Live(m) THEN [view EXCEPT ![m] = EndWrite(@, k)] ELSE view
  /\ writes' = [writes EXCEPT ![m][k] = NoWrite]
  /\ UNCHANGED <<runtimeVars, server, poll, edits, bound>>

-----------------------------------------------------------------------------
(***************************************************************************)
(* The polls                                                               *)
(***************************************************************************)
TimerFires(m) ==
  /\ Fires(m)
  /\ Refresh(m, view[m].generation)
  /\ UNCHANGED <<server, view, writes, edits, bound>>

\* Mutant: only fleet and metadata are compared.
SameRunPartly(reads) == reads["vessels"].run = reads["metadata"].run

SameRun(reads) == \A r \in Reads : reads[r].run = reads["metadata"].run

\* A new run resets the form; a field follows the server unless it is edited,
\* saved or focused.
Accept(v, reads, focused) ==
  LET newRun == reads["metadata"].run # v.runId
      now == [k \in Kinds |-> IF k = "count" THEN reads["vessels"] ELSE reads["metadata"]]
      follows(k) == ~v.dirty[k] /\ ~v.saving[k] /\ k # focused
  IN [v EXCEPT
        !.runId = reads["metadata"].run,
        !.initialized = TRUE,
        !.stale = FALSE,
        !.dirty = [k \in Kinds |-> @[k] /\ ~newRun],
        !.input = [k \in Kinds |-> IF newRun \/ follows(k) THEN now[k].value ELSE @[k]],
        !.shown = now,
        !.messages = reads["messages"]]

EndPoll(m) ==
  /\ poll' = [poll EXCEPT ![m] = NoPoll]
  /\ Later(m)

\* Promise.all: the three answers, dropped if a write began or ended meanwhile,
\* if the mount ended, or if they are of several runs.
PollReceive(m) ==
  LET p == poll[m]
  IN /\ p.phase = "sent"
     /\ \A r \in Reads : p.reads[r] # NoAnswer
     /\ \E focused \in Kinds \cup {"none"} :
          view' = IF p.started = view[m].generation /\ SameRun(p.reads)
                  THEN [view EXCEPT ![m] = Accept(@, p.reads, focused)]
                  ELSE view
     /\ EndPoll(m)
     /\ UNCHANGED <<server, writes, edits, bound>>

\* One read fails, times out or is aborted; without a clock none is stale.
PollFails(m) ==
  /\ poll[m].phase = "sent"
  /\ view' = IF Live(m) /\ view[m].runId # 0 THEN [view EXCEPT ![m].stale = TRUE] ELSE view
  /\ EndPoll(m)
  /\ UNCHANGED <<server, writes, edits, bound>>

-----------------------------------------------------------------------------
PollStep(m) == PollReceive(m) \/ PollFails(m)
WriteStep(m, k) == WriteReceive(m, k) \/ WriteFails(m, k)

MountNext(m) ==
  \/ Mount(m)
  \/ MountFails(m)
  \/ Unmount(m)
  \/ TimerFires(m)
  \/ \E r \in Reads : ReadAnswered(m, r)
  \/ PollReceive(m)
  \/ PollFails(m)
  \/ \E k \in Kinds : \E value \in Values[k] : Input(m, k, value)
  \/ \E k \in Kinds :
       \/ Submit(m, k)
       \/ WriteCommands(m, k)
       \/ WriteAnswered(m, k)
       \/ WriteReceive(m, k)
       \/ WriteFails(m, k)
  \/ \E value \in Values["speed"] : Preset(m, value)

Next ==
  \/ \E k \in Kinds : \E value \in Values[k] : OtherCommands(k, value)
  \/ Restart
  \/ \E m \in Mounts : MountNext(m)

Spec == Init /\ [][Next]_vars

\* Timers fire, requests end by their timeout at the latest, and from some time
\* on no read of a poll fails, unless a received poll would change the same.
Fairness ==
  /\ \A m \in Mounts :
       /\ WF_vars(TimerFires(m))
       /\ \A r \in Reads : WF_vars(ReadAnswered(m, r))
       /\ WF_vars(PollReceive(m))
       /\ \A k \in Kinds : WF_vars(WriteStep(m, k))
  /\ <>[][\A m \in Mounts : PollFails(m) => PollReceive(m)]_vars

FairSpec == Spec /\ Fairness

-----------------------------------------------------------------------------
(***************************************************************************)
(* Properties                                                              *)
(***************************************************************************)
\* Once the controls work, the fleet, the clock and the messages are of one run,
\* the one that the page takes for the current one, although three reads may
\* straddle a restart and a write may be answered by either run (refresh, write).
OneRun ==
  \A m \in Mounts : Live(m) /\ view[m].initialized =>
    /\ view[m].messages.run = view[m].runId
    /\ \A k \in Kinds : view[m].shown[k].run = view[m].runId

NotBefore(s, t) == t.run < s.run \/ (t.run = s.run /\ t.now <= s.now)

\* No poll undoes what a write confirmed: what it shows of the fleet, the clock
\* and the messages was read no earlier than what was shown (generation).
PollsAdvance ==
  [][\A m \in Mounts : poll[m] # NoPoll /\ poll'[m] = NoPoll =>
       /\ NotBefore(view'[m].messages, view[m].messages)
       /\ \A k \in Kinds : NotBefore(view'[m].shown[k], view[m].shown[k])]_vars

\* A write is answered with the state after its own command, and with another
\* value than was asked for only if another command followed in between
\* (setCount, setTime).
AnswerFollowsCommand ==
  \A m \in Mounts, k \in Kinds :
    LET w == writes[m][k]
    IN w.phase = "answered" =>
         /\ w.answer.now >= w.at
         /\ w.answer.value # w.value => w.answer.now > w.at

\* A mount that has ended changes nothing any more, although its polls and its
\* writes are still answered, also while another mount of the root is live
\* (onDestroy, runtime.destroyed).
DestroyedQuiet ==
  [][\A m \in Mounts : Destroyed(m) => view'[m] = view[m] /\ timers'[m] = timers[m]]_vars

\* Once commands, restarts and edits end and no read fails, a mounted page shows
\* the simulator's run, time and settings, and no button stays disabled.
Converges ==
  <>[](\A m \in Mounts : Live(m) =>
         /\ view[m].initialized /\ ~view[m].stale
         /\ \A k \in Kinds : view[m].shown[k] = Shown(k, server) /\ ~view[m].saving[k])
=============================================================================
