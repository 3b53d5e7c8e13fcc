------------------------------ MODULE SmbusProps ------------------------------
(* What the SMBus driver promises, over the histories that Smbus keeps.     *)
EXTENDS Smbus, SequencesExt

Bytes == [of : {"none", "own", "remote"} \X (0 .. MaxWork),
          kind : {"cmd", "size", "data", "pec", "stale"}, val : 0 .. 255]

\* Types of the driver, the FIFOs, the interrupt handler and the bus.
TypeOK ==
  /\ \A i \in Instances :
       LET x == s.inst[i] IN
       /\ x.state \in States /\ ToSet(s.queue[i]) \subseteq Events /\ ToSet(x.buf) \subseteq Bytes
       /\ x.proto \in RemoteProtos \cup OwnProtos \cup {"none"}
       /\ {x.size, x.send, x.expect, x.descs, x.empties} \subseteq Nat
       /\ {x.nack, x.pecSent, x.pec} \subseteq BOOLEAN
  /\ {s.inPlay, s.active, addr} \subseteq Instances \cup {None} /\ s.txn \in 0 .. MaxWork + 1
  /\ ToSet(s.tRx) \cup ToSet(s.cRx) \subseteq Bytes /\ {s.tThr, s.cThr} \subseteq Nat \ {0}
  /\ Len(s.tDesc) <= Depth /\ Len(s.cDesc) <= Depth /\ Len(s.tRx) <= Depth /\ Len(s.cRx) <= Depth
  /\ irq \subseteq TargetBits \cup ControllerBits
  /\ finished \subseteq 0 .. MaxWork + 1 /\ acked \subseteq 1 .. MaxWork

\* A command is undisturbed if no command up to it met a transfer to its own instance.
Undisturbed(id) == \A k \in 1 .. id : <<"own", k>> \notin collided

\* A message that met no command of its own instance, after no transfer
\* that the next one followed before the driver had seen its end.
Calm(of) ==
  of \notin collided /\ (of[1] = "remote" => hurried \cap (1 .. of[2]) = {})

Source(g) == s.given[g].data[1].of
MessageSize(of) ==
  IF of[1] = "remote" THEN wire[of[2]].size ELSE asked[of[2]]
Given == {g \in DOMAIN s.given : s.given[g].data # <<>>}
Carries(t) == wire[t].proto \in {"write", "blockWrite"} /\ wire[t].size # 0
Settled == rem.phase = "idle" /\ isr.pc = "idle" /\ "tDone" \notin irq

\* What the driver gives the application as the data of a message is the data
\* of one message, whole, in order, and given once (WriteDataToApplication
\* copies usExpectedByteCount bytes of what the handlers have collected); and
\* a message that was acknowledged to its end is given, once the driver has
\* seen its end.
DeliveredWhole ==
  /\ \A g \in {k \in Given : Calm(Source(k))} :
       /\ s.given[g].data = [k \in 1 .. MessageSize(Source(g)) |-> Byte(Source(g), "data", k)]
       /\ \A h \in Given \ {g} : Source(g) # Source(h)
  /\ Settled /\ Undisturbed(s.txn) =>
       \A t \in {k \in acked : Calm(<<"remote", k>>) /\ Carries(k)} :
         \E g \in Given : Source(g) = <<"remote", t>>

\* A command is answered at most once, with a success only if it ran to its end
\* on the bus; once it is no longer in play it has been answered
\* (vSMBusHandleActionAnnounceResultToApplication), and has left no instance in
\* a state of a controller, where it would refuse every later command.
AtMostOnce == \A a, b \in DOMAIN s.answers : a # b => s.answers[a].id # s.answers[b].id
AnsweredOnce ==
  /\ AtMostOnce
  /\ \A a \in DOMAIN s.answers :
       LET x == s.answers[a] IN x.result = "ok" /\ Undisturbed(x.id) => x.id \in finished
  /\ \A k \in {j \in 1 .. s.txn : Undisturbed(j)} :
       \/ k = s.txn /\ (s.inPlay # None \/ task.pc = "claim")
       \/ \E a \in DOMAIN s.answers : s.answers[a].id = k
  /\ task.pc = "idle" /\ isr.pc = "idle" /\ Undisturbed(s.txn) =>
       \A i \in Instances \ {s.inPlay} : s.inst[i].state \notin ControllerStates

\* Every command ends, that no transfer to its own instance has met and that
\* had no interrupt bit cleared unseen.
InPlayEnds ==
  s.inPlay # None ~> s.inPlay = None \/ ~ Undisturbed(s.txn) \/ s.txn \in unseen
-----------------------------------------------------------------------------
(* The inductive invariant behind AtMostOnce: the command in play has no    *)
(* answer yet, and no identifier is ahead of the last command.              *)

Fields == {"inst", "queue", "inPlay", "active", "txn", "ctlrOn", "go", "tRx", "tDesc", "tThr",
           "cRx", "cDesc", "cThr", "answers", "given"}
InstanceFields == {"state", "proto", "send", "size", "expect", "descs", "nack", "pecSent", "empties", "pec", "buf"}
Whole(d) ==
  /\ DOMAIN d = Fields /\ DOMAIN d.inst = Instances
  /\ \A i \in Instances : DOMAIN d.inst[i] = InstanceFields /\ d.inst[i].state \in States
Results == {"ok", "error"}
AnswersInv ==
  /\ Whole(s) /\ s.txn \in Nat /\ s.answers \in Seq([id : 0 .. s.txn, result : Results])
  /\ s.inPlay # None => \A a \in DOMAIN s.answers : s.answers[a].id # s.txn
  /\ AtMostOnce
-----------------------------------------------------------------------------
(* The inductive strengthening of AnsweredOnce: what the driver, the task,  *)
(* the interrupt handler and the controller engine have to do with the      *)
(* command in play, as long as no command has met a transfer to its own     *)
(* instance.                                                                *)

Starts  == {"start", "readStart", "quick"}                 \* descriptors on which the engine starts,
Ends    == {"quick", "stopWrite", "pecWrite", "readStop", "readPec"}   \* on which it ends,
Fetches == {"readStart", "readByte"}                       \* and that make it receive a byte
Descriptors == Starts \cup Ends \cup Fetches \cup {"byte"}
ReadStates == {"ReadBlockSize", "ReadByte", "ReadDone"}
Received == [of : {"own"} \X Nat, kind : {"size", "data", "pec"}, val : Nat]

Queue  == s.queue[s.inPlay]
Play   == s.inst[s.inPlay]
Raised == irq \cup isr.vec \cup ToSet(Queue)

\* The bits that the controller may still have to be told of, and whether its
\* engine runs.
Quiet == (irq \cup isr.vec) \cap ControllerBits = {} /\ own.phase = "idle"

\* The instance in play has not been told of its command.
Waiting == task.pc \in {"fill", "raise"} \/ ("next" \in ToSet(Queue) /\ Play.state \notin ControllerStates)

\* What has been queued is handled before anything else is queued, or
\* is the first event of a command.
QueueInv ==
  /\ task.pc = "drain" => isr.pc = "idle"
  /\ DOMAIN isr = DOMAIN IdleIsr /\ (isr.pc = "idle" => isr = IdleIsr)
  /\ DOMAIN s.queue = Instances /\ \A j \in Instances : s.queue[j] \in Seq(Events)
  /\ ~ Draining => \A j \in Instances :
       \/ s.queue[j] = <<>>
       \/ task.pc = "disable" /\ j = task.inst /\ s.queue[j] = <<"next">>
          /\ s.inst[j].state \notin ControllerStates

\* The task and the instance in play.
TaskInv ==
  /\ s.inPlay \in Instances \cup {None}
  /\ task = IdleTask \/ task \in [pc : {"claim", "fill", "raise", "disable", "drain"}, inst : Controllers,
                                  proto : OwnProtos, n : Nat, pec : BOOLEAN]
  /\ task.pc = "claim" => s.inPlay = None
  /\ s.inPlay # None => s.txn # 0
  /\ task.pc \in {"fill", "raise"} => s.inPlay = task.inst
  /\ task.pc \in {"disable", "drain"} => s.inPlay \in {None, task.inst}

Clean(x) == x.state = "Initial" => x.expect = 0 /\ x.descs = 0 /\ x.buf = <<>>
\* No other instance is in a state of a controller, or about to be; and one
\* that is back in Initial has nothing left of what it did.
OthersInv ==
  /\ \A j \in Instances : Clean(s.inst[j])
  /\ \A j \in Instances \ {s.inPlay} :
       s.inst[j].state \notin ControllerStates /\ "next" \notin ToSet(s.queue[j])

\* The engine: it runs for the command in play, and has nothing to do
\* once it has come to an end.
EngineInv ==
  /\ own \in [of : Nat, phase : {"idle", "write", "read"}, got : Nat, proto : OwnProtos \cup {"none"}]
  /\ irq \subseteq Events /\ isr.vec \subseteq Events
  /\ s.cDesc \in Seq(Descriptors) /\ s.cRx \in Seq(Received) /\ s.cThr \in Nat \ {0}
  /\ s.inPlay = None => s.cDesc = <<>> /\ s.cRx = <<>>
  /\ s.inPlay # None /\ own.phase # "idle" => own.of = s.txn
  /\ \A k, l \in DOMAIN s.cDesc : k < l /\ s.cDesc[k] \in Ends => s.cDesc[l] \notin Starts
  /\ "cDone" \in irq \cup isr.vec =>
       own.phase = "idle" /\ ~ s.go /\ ToSet(s.cDesc) \cap Starts = {}
  /\ "cDone" \in isr.vec => irq \cap ControllerBits \subseteq isr.all
  /\ ~ s.ctlrOn =>
       /\ isr.vec \cap ControllerBits = {}
       /\ IF s.inPlay = None THEN Quiet ELSE ToSet(Queue) \cap ControllerBits = {}

\* The command in play before its first event.
WaitingInv ==
  s.inPlay # None /\ Waiting =>
    /\ Quiet /\ s.cDesc = <<>> /\ s.cRx = <<>> /\ ToSet(Queue) \cap (ControllerBits \cup {"pec"}) = {}
    /\ Play.state \notin ControllerStates
    /\ task.pc \in {"fill", "raise", "disable", "drain"}
    /\ task.pc \in {"fill", "raise"} => "next" \notin ToSet(Queue)
    /\ task.pc # "fill" => Play.proto = task.proto /\ Play.size \in Nat /\ Play.pec \in BOOLEAN
\* It has been told of its command once, and an interrupt queues its events in their order.
Ordered == \A k, l \in DOMAIN Queue :
  /\ Queue[k] = "next" /\ Queue[l] = "next" => k = l
  /\ k < l /\ Queue[k] = "cEmpty" => Queue[l] \notin {"cError", "cEmpty"}

\* The command in play from its first event to its end: in each state of its instance,
\* the events that are to come are ones for which the state has a handler.
RunningInv ==
  s.inPlay # None /\ ~ Waiting =>
    /\ Play.state \in ControllerStates \cup {"AwaitingDone"} /\ "pec" \notin ToSet(Queue)
    /\ Play.expect \in Int /\ Play.descs \in Int /\ Play.size \in Int /\ Play.buf \in Seq(Received)
    /\ Play.pec \in BOOLEAN /\ Play.proto \in OwnProtos
    /\ "next" \in ToSet(Queue) => ToSet(Queue) \cap ControllerBits = {}
    /\ Play.state \in {"SendCommand", "SendReadStart"} => "next" \in ToSet(Queue)
    /\ Play.state \in ReadStates \cup {"AwaitingDone"} => "next" \notin ToSet(Queue)
    /\ Play.state \notin ReadStates =>
         "cData" \notin Raised /\ s.cRx = <<>> /\ ToSet(s.cDesc) \cap Fetches = {}
    /\ "cDone" \in Raised \/ ToSet(s.cDesc) \cap Ends # {} =>
         \/ Play.state = "AwaitingDone"
         \/ Play.state \in {"ReadByte", "ReadDone"} /\ Play.descs >= Play.expect
    /\ "cDone" \in Raised => s.txn \in finished
    /\ Play.state = "SendCommand" => Play.proto \in Reads \cup Calls \cup Writes
    /\ Play.state = "WriteByte" => Play.proto \in Calls \cup Writes
    /\ Play.state \in ReadStates \cup {"SendReadStart"} => Play.proto \in Reads \cup Calls \cup {"receive"}
    /\ Play.state = "ReadBlockSize" => Play.proto \in Blocks

Controlled ==
  /\ QueueInv /\ TaskInv /\ OthersInv /\ EngineInv
  /\ s.inPlay # None => Ordered
  /\ WaitingInv /\ RunningInv
ControlInv == Undisturbed(s.txn) => Controlled

\* Every command that is over has been answered, with a success only if it ran to its end.
AllAnswered ==
  /\ \A a \in DOMAIN s.answers :
       s.answers[a].result = "ok" /\ Undisturbed(s.answers[a].id) => s.answers[a].id \in finished
  /\ \A k \in {j \in 1 .. s.txn : Undisturbed(j)} :
       \/ k = s.txn /\ s.inPlay # None
       \/ \E a \in DOMAIN s.answers : s.answers[a].id = k
OnceInv == AnswersInv /\ ControlInv /\ AllAnswered
=============================================================================
