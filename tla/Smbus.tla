-------------------------------- MODULE Smbus --------------------------------
(***************************************************************************)
(* The SMBus driver of the AMC: a task starts commands as bus controller   *)
(* (smbus_driver.c), the interrupt handler turns interrupt bits into       *)
(* events (smbus_interrupt_handler.c), and a state machine per instance    *)
(* handles the events, for the instance that controls the bus and for the  *)
(* one that a remote controller addresses (smbus_state.c).                 *)
(*                                                                         *)
(* The SMBus IP is external: FIFOs of received bytes and of descriptors    *)
(* for each direction, and interrupt bits.  A byte that arrives waits, the *)
(* clock stretched, for room and for the descriptor that acknowledges it.  *)
(* Fixed-width protocols are one width, ARP, I2C and the simple device are *)
(* left out.  The errors of a target, which every state handles alike, are *)
(* one bit, with the ERROR_IRQ that has the handler look at both sides; a  *)
(* controller is told of a NACK, which has a bit of its own.  TEXT and     *)
(* CEXT time-outs are only logged, in every state, and are left out.       *)
(***************************************************************************)
EXTENDS Integers, Sequences, FiniteSets

CONSTANTS
  Instances,    \* instances in use, numbered from 0
  Controllers,  \* the ones that the task starts commands on
  PecTargets,   \* the ones with ucPECRequired
  None,         \* SMBUS_INVALID_INSTANCE
  RemoteProtos, \* what a remote controller asks
  OwnProtos,    \* what the task asks
  OwnPecs,      \* ucPecRequiredForTransaction of its commands
  Sizes,        \* sizes of a block
  Width,        \* bytes of a fixed-width protocol
  ReplySize,    \* bytes of a block that is read, here or from a remote
  Depth,        \* SMBUS_FIFO_DEPTH
  Half,         \* SMBUS_HALF_FIFO_DEPTH
  Trigger,      \* SMBUS_FIFO_FILL_TRIGGER
  Low,          \* fill level of an almost empty descriptor FIFO
  MaxEmpties,   \* SMBUS_MAX_FIFO_EMPTY_WHILE_IN_DONE
  MaxWork,      \* bound: transfers to us and commands of ours
  MaxFaults     \* bound: faults

Calls  == {"call", "blockCall"}
Reads  == {"read", "blockRead"}
Writes == {"write", "blockWrite", "send"}
Blocks == {"blockRead", "blockCall"}      \* the answer starts with its size

ASSUME SmbusAssumption ==
  /\ Instances \subseteq Nat /\ Controllers \subseteq Instances /\ PecTargets \subseteq Instances
  /\ None \notin Instances
  /\ RemoteProtos \subseteq Calls \cup Reads \cup Writes \cup {"none"}
  /\ OwnProtos \subseteq Calls \cup Reads \cup Writes \cup {"receive", "quick"}
  /\ OwnPecs \subseteq BOOLEAN /\ Sizes \subseteq Nat /\ Width \in Nat \ {0} /\ ReplySize \in Nat
  /\ Low \in Nat /\ Half \in Nat \ {0} /\ Trigger \in Nat \ {0}
  /\ Depth \in Nat /\ Depth > Low /\ Depth >= Width + 4   \* a fixed-width command fits
  /\ MaxEmpties \in Nat /\ MaxWork \in Nat /\ MaxFaults \in Nat

ControllerStates == {"SendCommand", "WriteByte", "SendReadStart", "ReadBlockSize",
                     "ReadByte", "ReadDone"}
States == ControllerStates \cup
  {"Initial", "AwaitingCommandByte", "AwaitingBlockSize", "AwaitingData",
   "AwaitingRead", "ReadyToSendByte", "CheckIfPecRequired", "AwaitingDone"}

\* Events, as the interrupt handler queues them, for the bits of the same name in vec.
Told(vec, e) == IF e \in vec THEN <<e>> ELSE <<>>
\* Mutant: the end of a transfer before its data.
DoneBeforeData(vec) ==
  Told(vec, "tError") \o Told(vec, "tRead") \o Told(vec, "tWrite") \o Told(vec, "tDone")
    \o Told(vec, "tData") \o Told(vec, "tEmpty")
TargetEvents(vec) ==
  Told(vec, "tError") \o Told(vec, "tRead") \o Told(vec, "tWrite") \o Told(vec, "tData")
    \o Told(vec, "tDone") \o Told(vec, "tEmpty")
ControllerEvents(vec) ==
  Told(vec, "cError") \o Told(vec, "cData") \o Told(vec, "cEmpty") \o Told(vec, "cDone")
TargetBits     == {"tError", "tRead", "tWrite", "tData", "tDone", "tEmpty"}
ControllerBits == {"cError", "cData", "cEmpty", "cDone"}
Events == TargetBits \cup ControllerBits \cup {"next", "pec"}

Byte(of, kind, val) == [of |-> of, kind |-> kind, val |-> val]
Stale == Byte(<<"none", 0>>, "stale", 0)
Rep(x, n) == [k \in 1 .. n |-> x]
Least(a, b) == IF a < b THEN a ELSE b

VARIABLES
  s,        \* the driver: its profile and instances, and the FIFOs that it fills and drains
  irq,      \* interrupt bits that are latched
  addr,     \* address of the last transfer to us, as the instance that has it
  isr,      \* the interrupt handler
  task,     \* the task in xSMBusControllerInitiateCommand
  rem,      \* the remote controller
  own,      \* our controller engine
  faults,
  wire,     \* history: protocol and size of each transfer to us
  acked,    \* history: transfers to us that ran to their end with no NACK
  hurried,  \* history: transfers followed by another before the driver saw their end
  asked,    \* history: bytes that each of our commands reads
  finished, \* history: our commands that ran to their end on the bus
  collided, \* history: our commands whose instance was addressed meanwhile, and the transfers
  unseen    \* history: our commands that had a bit cleared while it was disabled

hwVars == <<rem, own, faults, wire, acked, hurried, finished>>
vars == <<s, irq, addr, isr, task, asked, hwVars, collided, unseen>>

transfers == Len(wire)
started == transfers + s.txn + (IF task.pc = "claim" THEN 1 ELSE 0)

FreshData == [state |-> "Initial", proto |-> "none", send |-> 0, size |-> 0, expect |-> 0,
              descs |-> 0, nack |-> FALSE, pecSent |-> FALSE, empties |-> 0,
              pec |-> FALSE, buf |-> <<>>]
NoTransfer == [of |-> 0, to |-> None, out |-> <<>>, read |-> 0, phase |-> "idle", ok |-> TRUE]
IdleEngine == [of |-> 0, phase |-> "idle", got |-> 0, proto |-> "none"]
IdleIsr == [pc |-> "idle", vec |-> {}, all |-> {}, drain |-> FALSE, who |-> None]
IdleTask == [pc |-> "idle", inst |-> None, proto |-> "none", n |-> 0, pec |-> FALSE]

Init ==
  /\ s = [inst |-> [i \in Instances |-> FreshData], queue |-> [i \in Instances |-> <<>>],
          inPlay |-> None, active |-> None, txn |-> 0, ctlrOn |-> TRUE, go |-> FALSE,
          tRx |-> <<>>, tDesc |-> <<>>, tThr |-> 1, cRx |-> <<>>, cDesc |-> <<>>, cThr |-> 1,
          answers |-> <<>>, given |-> <<>>]
  /\ irq = {} /\ addr = None /\ isr = IdleIsr /\ task = IdleTask
  /\ rem = NoTransfer /\ own = IdleEngine /\ faults = 0
  /\ wire = <<>> /\ acked = {} /\ hurried = {} /\ asked = <<>> /\ finished = {}
  /\ collided = {} /\ unseen = {}

-----------------------------------------------------------------------------
(* Actions of the state machine, from a state of the driver to the next.   *)

To(d, i, state) == [d EXCEPT !.inst[i].state = state]
Raise(d, i, e)  == [d EXCEPT !.queue[i] = Append(@, e)]
Room(fifo)      == Depth - Len(fifo)
Target(d, x)    == [d EXCEPT !.tDesc = IF Room(@) > 0 THEN Append(@, x) ELSE @]
Control(d, xs)  == [d EXCEPT !.cDesc = @ \o xs]
Go(d)           == [d EXCEPT !.go = TRUE]
Nack(d, i)      == [Target(d, "nack") EXCEPT !.inst[i].nack = TRUE]

\* Mutant: the room is not looked at.
FillAllAcks(d, i) ==
  LET n == d.inst[i].expect - d.inst[i].descs
  IN IF n > 0 THEN [d EXCEPT !.tDesc = @ \o Rep("ack", n), !.inst[i].descs = @ + n] ELSE d
\* ACKs for the bytes that are still expected, as far as there is room.
FillAcks(d, i) ==
  LET n == Least(Room(d.tDesc), d.inst[i].expect - d.inst[i].descs)
  IN IF n > 0 THEN [d EXCEPT !.tDesc = @ \o Rep("ack", n), !.inst[i].descs = @ + n] ELSE d

ResetAllData(d, i) ==
  LET t == [d EXCEPT !.inst[i] = [FreshData EXCEPT !.state = d.inst[i].state, !.pec = d.inst[i].pec]]
  IN IF i = d.inPlay THEN [t EXCEPT !.inPlay = None, !.cRx = <<>>, !.cDesc = <<>>]
     ELSE [t EXCEPT !.active = None, !.tRx = <<>>]
\* Mutant: the data are reset and the state is kept.
BackInState(d, i) == ResetAllData(d, i)
Back(d, i) == To(ResetAllData(d, i), i, "Initial")

\* Mutants: errors are not announced; every result is a success.
AnnounceSuccess(d, i, r) ==
  IF i = d.inPlay /\ r = "ok" THEN [d EXCEPT !.answers = Append(@, [id |-> d.txn, result |-> r])] ELSE d
AnnounceOk(d, i, r) ==
  IF i = d.inPlay THEN [d EXCEPT !.answers = Append(@, [id |-> d.txn, result |-> "ok"])] ELSE d
\* The result of a command; a target's has no transaction and is left out.
Announce(d, i, r) ==
  IF i = d.inPlay THEN [d EXCEPT !.answers = Append(@, [id |-> d.txn, result |-> r])] ELSE d

\* Mutant: all that was received, the PEC included.
WriteReceived(d, i) == [d EXCEPT !.given = Append(@, [by |-> i, data |-> d.inst[i].buf])]
WriteData(d, i) ==
  LET x == d.inst[i]
      n == x.expect - Len(x.buf)
      data == IF n > 0 THEN x.buf \o Rep(Stale, n) ELSE SubSeq(x.buf, 1, x.expect)
  IN [d EXCEPT !.given = Append(@, [by |-> i, data |-> data])]

\* The application answers a read with a block, or with a word.
GetData(d, i) ==
  [d EXCEPT !.inst[i].size =
     IF d.inst[i].proto \in Blocks THEN 1 + ReplySize ELSE Width]

DrainTarget(d, i) == [d EXCEPT !.inst[i].buf = @ \o d.tRx, !.tRx = <<>>]

\* The application names the protocol of a command byte.
GetProtocol(d, i) ==
  IF d.tRx = <<>> THEN d
  ELSE LET b == Head(d.tRx)
       IN [d EXCEPT !.tRx = Tail(@),
             !.inst[i].proto = IF b.kind = "cmd" THEN wire[b.of[2]].proto ELSE "none"]

-----------------------------------------------------------------------------
(* The handlers, one per state.  An event that a state does not list takes *)
(* the instance back to Initial, with no announcement.                     *)

Initial(d, i, e) ==
  LET p == d.inst[i].proto IN
  CASE e = "tWrite" -> To(d, i, "AwaitingCommandByte")
    [] e = "tRead"  -> Back(Target(d, "data"), i)
    [] e = "next" /\ p = "quick" -> To(Go(Control(d, <<"quick">>)), i, "AwaitingDone")
    [] e = "next" /\ p = "receive" ->
         To(Raise([d EXCEPT !.inst[i].expect = 1], i, "next"), i, "SendReadStart")
    [] e = "next" /\ p \notin {"quick", "receive"} ->
         To(Raise(Control(d, <<"start">>), i, "next"), i, "SendCommand")
    [] OTHER -> Back(d, i)

AwaitingCommandByte(d, i, e) ==
  LET t == GetProtocol(d, i)
      p == t.inst[i].proto
      fixed == [t EXCEPT !.inst[i].expect = Width, !.inst[i].descs = Width + 1,
                         !.tThr = Width, !.tDesc = @ \o Rep("ack", Width + 1)]
  IN CASE e = "tEmpty" -> d
       [] e = "tData" /\ p \in Reads -> To(Target(GetData(t, i), "ack"), i, "AwaitingRead")
       [] e = "tData" /\ p \in {"write", "call"} ->
            To(IF t.tRx = <<>> THEN fixed ELSE Raise(fixed, i, "tData"), i, "AwaitingData")
       [] e = "tData" /\ p \in {"blockWrite", "blockCall"} ->
            To(Target(t, "ack"), i, "AwaitingBlockSize")
       [] e = "tData" /\ p \notin Reads \cup Calls \cup {"write", "blockWrite"} ->
            To(Nack(t, i), i, "AwaitingDone")
       [] OTHER -> Back(d, i)

AwaitingBlockSize(d, i, e) ==
  LET n == Head(d.tRx).val
      t == [Target(d, "ack") EXCEPT !.tRx = Tail(@), !.inst[i].expect = n, !.inst[i].buf = <<>>,
                                    !.tThr = IF n < Trigger THEN 1 ELSE Trigger]
  IN CASE e = "tEmpty" \/ (e = "tData" /\ d.tRx = <<>>) -> d
       [] e = "tData" /\ d.tRx # <<>> ->
            IF d.inst[i].proto = "blockCall" /\ n = 0
            THEN To(GetData(t, i), i, "AwaitingRead") ELSE To(t, i, "AwaitingData")
       [] OTHER -> Back(d, i)

AwaitingData(d, i, e) ==
  LET t == DrainTarget(d, i)
      x == t.inst[i]
      left == x.expect - Len(x.buf)
      full == [t EXCEPT !.tThr = 1]
      told == IF x.nack THEN full ELSE WriteData(full, i)
  IN CASE e = "tEmpty" -> FillAcks(d, i)
       [] e = "tRead"  -> Raise(d, i, "tRead")
       [] e = "tDone"  -> Back(Announce(d, i, "error"), i)
       [] e = "tData" /\ x.proto \notin Calls \cup Writes -> d
       [] e = "tData" /\ x.proto \in Calls \cup Writes ->
            IF left > 0 THEN [t EXCEPT !.tThr = IF Trigger > left THEN 1 ELSE Trigger]
            ELSE IF x.proto \in Calls THEN To(GetData(told, i), i, "AwaitingRead")
            ELSE To(full, i, "AwaitingDone")
       [] OTHER -> Back(d, i)

AwaitingRead(d, i, e) ==
  CASE e = "tEmpty" -> FillAcks(d, i)
    [] e = "tRead"  -> IF d.inst[i].proto \in Calls \cup Reads THEN To(d, i, "ReadyToSendByte") ELSE d
    [] e = "tData"  -> d
    [] OTHER        -> Back(d, i)

ReadyToSendByte(d, i, e) ==
  LET x == d.inst[i]
      n == Least(Room(d.tDesc), x.size - x.send)
      t == [d EXCEPT !.tDesc = @ \o Rep("data", n), !.inst[i].send = @ + n]
  IN CASE e = "tEmpty" /\ x.proto \in Calls \cup Reads ->
            IF x.send + n = x.size THEN To(Raise(t, i, "pec"), i, "CheckIfPecRequired") ELSE t
       [] e = "tEmpty" /\ x.proto \notin Calls \cup Reads -> d
       [] OTHER -> Back(d, i)

CheckIfPecRequired(d, i, e) ==
  CASE e = "pec" /\ i \notin PecTargets  -> To(d, i, "AwaitingDone")
    [] e = "pec" /\ i \in PecTargets ->
         IF Room(d.tDesc) = 0 THEN Raise(d, i, "pec") ELSE To(Target(d, "pec"), i, "AwaitingDone")
    [] OTHER -> Back(d, i)

AwaitingDone(d, i, e) ==
  LET x == d.inst[i]
      more == [(IF x.nack THEN d ELSE FillAcks(d, i)) EXCEPT !.inst[i].empties = @ + 1]
      pecDue == Len(x.buf) >= x.expect + 1 /\ i \in PecTargets /\ ~ x.pecSent
      told == IF x.proto \in Writes /\ ~ x.nack THEN WriteData(d, i) ELSE d
      read == IF x.proto = "blockRead" THEN WriteData(d, i) ELSE d
  IN CASE e = "cEmpty" \/ (e = "tData" /\ x.proto \notin Writes) -> d
       [] e = "tEmpty" ->
            IF x.empties + 1 > MaxEmpties THEN [Nack(d, i) EXCEPT !.inst[i].empties = @ + 1]
            ELSE IF pecDue THEN [Target(more, "pec") EXCEPT !.inst[i].pecSent = TRUE] ELSE more
       [] e = "tError" -> Back(Announce(d, i, "error"), i)
       [] e = "tRead"  -> Nack(d, i)
       [] e = "tDone"  -> IF x.proto = "quick" THEN d
                          ELSE Back(Announce(told, i, IF x.nack THEN "error" ELSE "ok"), i)
       [] e = "tData" /\ x.proto \in Writes -> DrainTarget(d, i)
       [] e = "cDone"  -> Back(Announce(read, i, "ok"), i)
       [] OTHER        -> Back(d, i)

SendCommand(d, i, e) ==
  LET p == d.inst[i].proto
      t == Raise(Control(d, <<"byte">>), i, "next")
  IN CASE e = "next" /\ p \in Reads -> To(t, i, "SendReadStart")
       [] e = "next" /\ p \in Calls \cup (Writes \ {"send"}) -> To(t, i, "WriteByte")
       [] e = "next" /\ p = "send" -> To(Raise(d, i, "next"), i, "WriteByte")
       [] e = "next" /\ p \notin Reads \cup Calls \cup Writes -> d
       [] OTHER -> Back(d, i)

\* All bytes but the last as they fit, then the last with what follows it.
WriteByte(d, i, e) ==
  LET x == d.inst[i]
      n == Least(Room(d.cDesc), x.size - 1)
      bytes == [Go(Control(d, Rep("byte", n))) EXCEPT !.inst[i].size = @ - n, !.inst[i].send = @ + n]
  IN CASE e \in {"next", "cEmpty"} /\ x.proto \notin Calls \cup Writes -> d
       [] e \in {"next", "cEmpty"} /\ x.proto \in Calls \cup Writes ->
            IF x.size > 1 THEN bytes
            ELSE IF x.proto \in Calls /\ Room(d.cDesc) > 0
              THEN To(Raise(Control(d, <<"byte">>), i, "next"), i, "SendReadStart")
            ELSE IF x.proto \in Writes /\ x.pec /\ Room(d.cDesc) > 1
              THEN To(Go(Control(d, <<"byte", "pecWrite">>)), i, "AwaitingDone")
            ELSE IF x.proto \in Writes /\ ~ x.pec
              THEN IF Room(d.cDesc) > 0 THEN To(Go(Control(d, <<"stopWrite">>)), i, "AwaitingDone")
                   ELSE Go(d)
            ELSE d
       [] OTHER -> Back(d, i)

SendReadStart(d, i, e) ==
  LET x == d.inst[i]
      n == IF x.proto = "receive" THEN 1 ELSE Width
      descs == IF x.pec THEN Rep("readByte", n) \o <<"readPec">>
               ELSE Rep("readByte", n - 1) \o <<"readStop">>
  IN CASE e = "next" /\ x.proto \in Blocks ->
            To(Go(Control([d EXCEPT !.inst[i].descs = 0], <<"readStart">>)), i, "ReadBlockSize")
       [] e = "next" /\ x.proto \in {"read", "call", "receive"} ->
            To(Go(Control([d EXCEPT !.inst[i].expect = n, !.inst[i].descs = n, !.cThr = n],
                          <<"readStart">> \o descs)), i, "ReadByte")
       [] e = "next" /\ x.proto \notin Blocks \cup {"read", "call", "receive"} -> d
       [] OTHER -> Back(d, i)

ReadBlockSize(d, i, e) ==
  LET x == d.inst[i]
      n == IF d.cRx = <<>> THEN 0 ELSE Head(d.cRx).val
      t == [d EXCEPT !.cRx = IF @ = <<>> THEN @ ELSE Tail(@), !.inst[i].expect = n,
                     !.inst[i].descs = 0, !.cThr = IF n > 0 THEN Least(n, Half) ELSE @]
  IN CASE e = "cEmpty" -> d
       [] e = "cData" /\ x.proto \notin Blocks -> d
       [] e = "cData" /\ x.proto \in Blocks ->
            IF x.pec THEN To(Go(Control(t, IF n = 0 THEN <<"readByte", "readPec">> ELSE <<"readByte">>)),
                             i, "ReadByte")
            ELSE IF n = 0 THEN To(Go(Control(t, <<"readStop">>)), i, "ReadDone")
            ELSE To(Go(Control(t, <<"readByte">>)), i, "ReadByte")
       [] OTHER -> Back(d, i)

\* More descriptors for a block that is read, as they fit, and the one that ends it.
FillReads(d, i) ==
  LET x == d.inst[i]
      last == IF x.pec THEN x.expect ELSE x.expect - 1      \* bytes before the last descriptor
      n == Least(Room(d.cDesc), last - x.descs)
      ends == x.descs + n = last /\ Room(d.cDesc) > n
      xs == Rep("readByte", n) \o (IF ~ ends THEN <<>> ELSE IF x.pec THEN <<"readPec">> ELSE <<"readStop">>)
  IN IF x.descs < x.expect THEN Go(Control([d EXCEPT !.inst[i].descs = @ + Len(xs)], xs)) ELSE d

ReadByte(d, i, e) ==
  LET t == [d EXCEPT !.inst[i].buf = @ \o d.cRx, !.cRx = <<>>]
      x == t.inst[i]
      left == x.expect - Len(x.buf)
  IN CASE e = "cEmpty" -> IF x.proto \in Blocks THEN FillReads(d, i) ELSE d
       [] e = "cDone"  -> d
       [] e = "cData" /\ x.proto \notin Calls \cup Reads \cup {"receive"} -> d
       [] e = "cData" /\ x.proto \in Calls \cup Reads \cup {"receive"} ->
            IF left > 0 THEN [t EXCEPT !.cThr = Least(left, Half)]
            ELSE IF x.pec /\ left = 0 THEN [t EXCEPT !.cThr = 1]
            ELSE To([t EXCEPT !.cThr = 1], i, "ReadDone")
       [] OTHER -> Back(d, i)

ReadDone(d, i, e) ==
  LET x == d.inst[i]
      pecDue == x.pec /\ x.descs = x.expect /\ Room(d.cDesc) > 0
      told == IF x.proto \in Calls \cup Reads \cup {"receive"} THEN WriteData(d, i) ELSE d
  IN CASE e = "cData"  -> d
       [] e = "cEmpty" -> IF x.descs < x.expect THEN FillReads(d, i)
                          ELSE IF pecDue
                            THEN Control([d EXCEPT !.inst[i].descs = @ + 1], <<"readPec">>)
                          ELSE d
       [] e = "cDone"  -> IF x.proto \in {"none", "quick"} THEN d
                          ELSE Back(Announce(told, i, "ok"), i)
       [] OTHER        -> Back(d, i)

Fsm(d, i, e) ==
  LET state == d.inst[i].state IN
  IF e = "cError" THEN Back(Announce(d, i, "error"), i)       \* in every state
  ELSE CASE state = "Initial"             -> Initial(d, i, e)
         [] state = "AwaitingCommandByte" -> AwaitingCommandByte(d, i, e)
         [] state = "AwaitingBlockSize"   -> AwaitingBlockSize(d, i, e)
         [] state = "AwaitingData"        -> AwaitingData(d, i, e)
         [] state = "AwaitingRead"        -> AwaitingRead(d, i, e)
         [] state = "ReadyToSendByte"     -> ReadyToSendByte(d, i, e)
         [] state = "CheckIfPecRequired"  -> CheckIfPecRequired(d, i, e)
         [] state = "AwaitingDone"        -> AwaitingDone(d, i, e)
         [] state = "SendCommand"         -> SendCommand(d, i, e)
         [] state = "WriteByte"           -> WriteByte(d, i, e)
         [] state = "SendReadStart"       -> SendReadStart(d, i, e)
         [] state = "ReadBlockSize"       -> ReadBlockSize(d, i, e)
         [] state = "ReadByte"            -> ReadByte(d, i, e)
         [] state = "ReadDone"            -> ReadDone(d, i, e)

-----------------------------------------------------------------------------
(* The interrupt handler.  Its steps interleave with the IP, not with a    *)
(* task, which it has interrupted.                                         *)

\* Level-triggered bits: a threshold that is reached, a byte or an engine
\* that waits for a descriptor.
Levels ==
  {b \in {"tData", "tEmpty", "cData", "cEmpty"} :
     CASE b = "tData"  -> Len(s.tRx) >= s.tThr
       [] b = "tEmpty" -> rem.phase \in {"wait", "read"} /\ s.tDesc = <<>>
       [] b = "cData"  -> Len(s.cRx) >= s.cThr
       [] b = "cEmpty" -> own.phase \in {"write", "read"} /\ s.cDesc = <<>>}
Pending == irq \cup Levels
Enabled == IF s.ctlrOn THEN TargetBits \cup ControllerBits ELSE TargetBits

Queued(d, i, events) == [d EXCEPT !.queue[i] = @ \o events]

\* An interrupt is taken: a transfer that starts names the active target,
\* and the active target gets the events of its bits.
IsrEnter ==
  LET vec == Pending \cap Enabled
      target == IF vec \cap {"tRead", "tWrite"} # {} THEN addr ELSE s.active
      d == [s EXCEPT !.active = target]
  IN /\ isr.pc = "idle" /\ task.pc # "drain" /\ vec # {}
     /\ IF vec \cap TargetBits # {}
        THEN /\ isr' = [pc |-> "target", vec |-> vec, all |-> Pending,
                        drain |-> target # None, who |-> target]
             /\ s' = IF target = None THEN [d EXCEPT !.tRx = <<>>]
                     ELSE Queued(d, target, TargetEvents(vec))
        ELSE /\ isr' = [pc |-> "target", vec |-> vec, all |-> Pending, drain |-> FALSE, who |-> None]
             /\ s' = s
     /\ UNCHANGED <<irq, addr, task, asked, hwVars, collided, unseen>>

Drained == ~ isr.drain \/ \A i \in Instances : s.queue[i] = <<>>

\* The bits of the controller, for the instance in play.
IsrController ==
  /\ isr.pc = "target" /\ Drained
  /\ IF isr.vec \cap (ControllerBits \cup {"tError"}) = {}
     THEN isr' = [isr EXCEPT !.pc = "controller", !.drain = FALSE] /\ s' = s
     ELSE /\ isr' = [isr EXCEPT !.pc = "controller", !.drain = s.inPlay # None, !.who = s.inPlay]
          /\ s' = IF s.inPlay = None THEN [s EXCEPT !.cRx = <<>>, !.cDesc = <<>>]
                  ELSE Queued(s, s.inPlay, ControllerEvents(isr.vec))
  /\ UNCHANGED <<irq, addr, task, asked, hwVars, collided, unseen>>

IsrExit ==
  /\ isr.pc = "controller" /\ Drained
  /\ irq' = irq \ isr.all
  /\ s' = [s EXCEPT !.ctlrOn = @ /\ ~ (isr.who # None /\ "cDone" \in isr.vec)]
  /\ isr' = IdleIsr
  /\ unseen' = IF s.inPlay # None /\ isr.all \cap ({"cError", "cDone"} \ isr.vec) # {}
               THEN unseen \cup {s.txn} ELSE unseen
  /\ UNCHANGED <<addr, task, asked, hwVars, collided>>

\* vSMBusEventQueueHandle, in the handler or in the task with interrupts
\* disabled: one event of the first instance that has any.
Draining == (isr.pc # "idle" /\ isr.drain) \/ (isr.pc = "idle" /\ task.pc = "drain")
HandleEvent ==
  \E i \in Instances :
    /\ Draining /\ s.queue[i] # <<>>
    /\ \A j \in Instances : j < i => s.queue[j] = <<>>
    /\ LET e == Head(s.queue[i]) IN
       /\ s' = Fsm([s EXCEPT !.queue[i] = Tail(@)], i, e)
       /\ collided' =
            IF /\ i = s.inPlay \/ (i = task.inst /\ task.pc # "claim")
               /\ \/ e \in TargetBits
                  \/ e = "next" /\ s.inst[i].state \notin {"Initial"} \cup ControllerStates
            THEN collided \cup {<<"own", s.txn>>, <<"remote", transfers>>} ELSE collided
    /\ UNCHANGED <<irq, addr, isr, task, asked, hwVars, unseen>>

-----------------------------------------------------------------------------
(* xSMBusControllerInitiateCommand, called by one task at a time.          *)

\* An interrupt that is pending and enabled is taken before the task goes on.
taskStep == /\ isr.pc = "idle" /\ (task.pc = "drain" \/ Pending \cap Enabled = {})
            /\ UNCHANGED <<irq, addr, isr, hwVars, collided, unseen>>

Answered(p) == IF p \in Blocks THEN ReplySize ELSE IF p = "receive" THEN 1 ELSE Width
Check(i, p, n, pec) ==
  /\ task.pc = "idle" /\ started < MaxWork /\ s.inPlay = None /\ s.inst[i].state = "Initial"
  /\ task' = [pc |-> "claim", inst |-> i, proto |-> p, n |-> n, pec |-> pec]
  /\ s' = s /\ taskStep /\ UNCHANGED asked
\* Mutant: every command has the first identifier.
ClaimFirst ==
  /\ task.pc = "claim" /\ task' = [task EXCEPT !.pc = "fill"]
  /\ s' = [s EXCEPT !.txn = 1, !.inPlay = task.inst] /\ taskStep
  /\ asked' = Append(asked, Answered(task.proto))
Claim ==
  /\ task.pc = "claim" /\ task' = [task EXCEPT !.pc = "fill"]
  /\ s' = [s EXCEPT !.txn = @ + 1, !.inPlay = task.inst] /\ taskStep
  /\ asked' = Append(asked, Answered(task.proto))
Fill ==
  /\ task.pc = "fill" /\ task' = [task EXCEPT !.pc = "raise"]
  /\ s' = [s EXCEPT !.inst[task.inst].size = task.n, !.inst[task.inst].send = 0,
                    !.inst[task.inst].proto = task.proto, !.inst[task.inst].pec = task.pec,
                    !.cDesc = <<>>, !.cRx = <<>>]
  /\ taskStep /\ UNCHANGED asked
RaiseNext ==
  /\ task.pc = "raise" /\ task' = [task EXCEPT !.pc = "disable"]
  /\ s' = Raise(s, task.inst, "next") /\ taskStep /\ UNCHANGED asked
Disable ==
  /\ task.pc = "disable" /\ task' = [task EXCEPT !.pc = "drain"] /\ s' = s /\ taskStep
  /\ UNCHANGED asked
\* Mutant: the bits of the controller stay disabled.
EnableGie ==
  /\ task.pc = "drain" /\ \A i \in Instances : s.queue[i] = <<>>
  /\ task' = IdleTask /\ s' = s /\ taskStep /\ UNCHANGED asked
Enable ==
  /\ task.pc = "drain" /\ \A i \in Instances : s.queue[i] = <<>>
  /\ task' = IdleTask /\ s' = [s EXCEPT !.ctlrOn = TRUE] /\ taskStep
  /\ UNCHANGED asked

Initiate ==
  \/ \E i \in Controllers, p \in OwnProtos, pec \in OwnPecs :
       \E n \in IF p = "blockWrite" \/ p = "blockCall" THEN {k + 1 : k \in Sizes} ELSE {Width} :
          Check(i, p, n, pec)
  \/ Claim \/ Fill \/ RaiseNext \/ Disable \/ Enable

-----------------------------------------------------------------------------
(* The remote controller (external): the bytes that it writes, then those  *)
(* that it reads.                                                          *)

RemoteBytes(j, p, n) ==
  LET of == <<"remote", transfers + 1>>
      pec == IF j \in PecTargets /\ p \notin Reads \cup Calls THEN <<Byte(of, "pec", 0)>> ELSE <<>>
      k == IF p \in {"blockWrite", "blockCall"} THEN n ELSE IF p \in {"write", "call"} THEN Width ELSE 0
      size == IF p \in {"blockWrite", "blockCall"} THEN <<Byte(of, "size", n)>> ELSE <<>>
  IN <<Byte(of, "cmd", 0)>> \o size \o [x \in 1 .. k |-> Byte(of, "data", x)] \o pec
RemoteReads(j, p) ==
  LET k == IF p \in Blocks THEN 1 + ReplySize ELSE Width
  IN IF p \notin Reads \cup Calls THEN 0 ELSE IF j \in PecTargets THEN k + 1 ELSE k

\* A transfer starts on the free bus, or wins it from our engine.  Descriptors
\* for a transfer to us are those of this one: the IP drops what is left of the
\* last one, here and at the STOP.
RemoteStart(j, p, n) ==
  /\ started < MaxWork /\ rem.phase = "idle" /\ own.phase = "idle"
  /\ rem' = [of |-> transfers + 1, to |-> j, out |-> RemoteBytes(j, p, n),
             read |-> RemoteReads(j, p), phase |-> "write", ok |-> TRUE]
  /\ wire' = Append(wire, [proto |-> p, size |-> IF p \in {"blockWrite", "blockCall"} THEN n ELSE Width])
  /\ addr' = j
  /\ \/ irq' = irq \cup {"tWrite"} /\ s' = [s EXCEPT !.tDesc = <<>>]
     \/ /\ s.go /\ s.cDesc # <<>> /\ irq' = irq \cup {"tWrite", "cError"}
        /\ s' = [s EXCEPT !.tDesc = <<>>, !.go = FALSE]
  /\ hurried' = IF "tDone" \in irq THEN hurried \cup {transfers} ELSE hurried
  /\ UNCHANGED <<isr, task, own, faults, acked, asked, finished, collided, unseen>>

remStep == UNCHANGED <<addr, isr, task, own, wire, hurried, asked, finished, collided, unseen>>
Almost(fifo, bit) == IF Len(fifo) <= Low THEN {bit} ELSE {}

RemoteByte ==
  /\ rem.phase = "write" /\ Room(s.tRx) > 0 /\ rem' = [rem EXCEPT !.phase = "wait"]
  /\ s' = [s EXCEPT !.tRx = Append(@, Head(rem.out))]
  /\ UNCHANGED <<irq, faults, acked>> /\ remStep

\* The descriptor for the byte.  A wrong PEC, found by a PEC descriptor, is an error.
RemoteAnswered ==
  \E wrong \in BOOLEAN :
    LET x == Head(s.tDesc)
        left == Tail(rem.out)
        good == x = "ack" \/ (x = "pec" /\ Head(rem.out).kind = "pec" /\ ~ wrong)
    IN /\ rem.phase = "wait" /\ s.tDesc # <<>>
       /\ wrong => x = "pec" /\ faults < MaxFaults
       /\ faults' = IF wrong THEN faults + 1 ELSE faults
       /\ s' = [s EXCEPT !.tDesc = Tail(@)]
       /\ irq' = irq \cup Almost(s'.tDesc, "tEmpty") \cup (IF good \/ x = "nack" THEN {} ELSE {"tError"})
       /\ rem' = [rem EXCEPT !.out = left, !.ok = good,
                    !.phase = IF ~ good \/ (left = <<>> /\ rem.read = 0) THEN "stop"
                              ELSE IF left = <<>> THEN "restart" ELSE "write"]
       /\ UNCHANGED acked /\ remStep

RemoteRestart ==
  /\ rem.phase = "restart" /\ rem' = [rem EXCEPT !.phase = "read"]
  /\ irq' = irq \cup {"tRead"}
  /\ UNCHANGED <<s, faults, acked>> /\ remStep

RemoteRead ==
  /\ rem.phase = "read" /\ s.tDesc # <<>>
  /\ s' = [s EXCEPT !.tDesc = Tail(@)]
  /\ LET good == Head(s.tDesc) \in {"data", "pec"} IN
     /\ irq' = irq \cup Almost(s'.tDesc, "tEmpty") \cup (IF good THEN {} ELSE {"tError"})
     /\ rem' = [rem EXCEPT !.read = @ - 1, !.ok = good,
                           !.phase = IF ~ good \/ rem.read = 1 THEN "stop" ELSE "read"]
  /\ UNCHANGED <<faults, acked>> /\ remStep

RemoteStop ==
  /\ rem.phase = "stop" /\ rem' = NoTransfer
  /\ irq' = irq \cup {"tDone"} /\ s' = [s EXCEPT !.tDesc = <<>>]
  /\ acked' = IF rem.ok THEN acked \cup {rem.of} ELSE acked
  /\ UNCHANGED faults /\ remStep

RemoteAbandon ==
  /\ rem.phase \notin {"idle", "stop"} /\ faults < MaxFaults /\ faults' = faults + 1
  /\ rem' = [rem EXCEPT !.phase = "stop", !.ok = FALSE]
  /\ UNCHANGED <<s, irq, acked>> /\ remStep

\* The clock was stretched too long: PHY_SMBCLK_LOW_TIMEOUT.
RemoteTimeout ==
  /\ rem.phase \in {"wait", "read"} /\ s.tDesc = <<>> /\ Pending \subseteq {"tEmpty"}
  /\ rem' = NoTransfer /\ irq' = irq \cup {"tError"}
  /\ UNCHANGED <<s, faults, acked>> /\ remStep

Remote ==
  \/ \E j \in Instances, p \in RemoteProtos :
       \E n \in IF p = "blockWrite" \/ p = "blockCall" THEN Sizes ELSE {0} : RemoteStart(j, p, n)
  \/ RemoteAbandon
RemoteProgress ==
  RemoteByte \/ RemoteAnswered \/ RemoteRestart \/ RemoteRead \/ RemoteStop \/ RemoteTimeout

-----------------------------------------------------------------------------
(* Our controller engine (external): it runs the descriptors once the      *)
(* driver has enabled it and the bus is free.                              *)

ownStep == UNCHANGED <<addr, isr, task, rem, wire, acked, hurried, asked, collided, unseen>>
Arrives(x) ==   \* the next byte that the addressed device sends
  LET k == x.got + 1
      block == x.proto \in Blocks
      n == IF block THEN 1 + ReplySize ELSE Answered(x.proto)
      of == <<"own", x.of>>
  IN IF block /\ k = 1 THEN Byte(of, "size", ReplySize)
     ELSE IF k > n THEN Byte(of, "pec", 0)
     ELSE Byte(of, "data", IF block THEN k - 1 ELSE k)

\* One descriptor x of engine e; ends, fails or goes on.
Run(e, x) ==
  CASE x \in {"quick", "stopWrite", "pecWrite", "readStop", "readPec"} ->
         /\ own' = IdleEngine /\ finished' = finished \cup {e.of}
         /\ s' = [s EXCEPT !.cDesc = Tail(@), !.go = FALSE]
         /\ irq' = irq \cup {"cDone"} \cup Almost(s'.cDesc, "cEmpty")
    [] x \in {"readStart", "readByte"} ->
         /\ own' = [e EXCEPT !.phase = "read", !.got = @ + 1] /\ UNCHANGED finished
         /\ s' = [s EXCEPT !.cDesc = Tail(@), !.cRx = Append(@, Arrives(e))]
         /\ irq' = irq \cup Almost(s'.cDesc, "cEmpty")
    [] OTHER ->   \* a start, or a byte that is written
         /\ own' = e /\ UNCHANGED finished
         /\ s' = [s EXCEPT !.cDesc = Tail(@)]
         /\ irq' = irq \cup Almost(s'.cDesc, "cEmpty")

EngineStart ==
  /\ own.phase = "idle" /\ s.go /\ s.cDesc # <<>> /\ Head(s.cDesc) \in {"start", "readStart", "quick"}
  /\ rem.phase = "idle"
  /\ Run([of |-> s.txn, phase |-> "write", got |-> 0,
          proto |-> IF s.inPlay = None THEN "none" ELSE s.inst[s.inPlay].proto], Head(s.cDesc))
  /\ UNCHANGED faults /\ ownStep
EngineStep ==
  /\ own.phase # "idle" /\ s.cDesc # <<>> /\ Room(s.cRx) > 0
  /\ Run(own, Head(s.cDesc)) /\ UNCHANGED faults /\ ownStep

\* The addressed device does not acknowledge.
EngineNack ==
  /\ own.phase # "idle" /\ faults < MaxFaults /\ faults' = faults + 1
  /\ own' = IdleEngine /\ s' = [s EXCEPT !.go = FALSE] /\ irq' = irq \cup {"cError"}
  /\ UNCHANGED finished /\ ownStep

\* The clock was held low (PHY_SMBCLK_LOW_TIMEOUT) for a command that the driver
\* has given up.
EngineTimeout ==
  /\ own.phase # "idle" /\ s.cDesc = <<>> /\ s.inPlay = None
  /\ own' = IdleEngine /\ s' = [s EXCEPT !.go = FALSE] /\ irq' = irq \cup {"tError"}
  /\ UNCHANGED <<finished, faults>> /\ ownStep

Engine == EngineStart \/ EngineStep \/ EngineTimeout

Isr == IsrEnter \/ IsrController \/ IsrExit \/ HandleEvent
Next == Isr \/ Initiate \/ Remote \/ RemoteProgress \/ Engine \/ EngineNack

\* Interrupts are taken and handled, a task that has started a command goes
\* on with it, and the IP and the bus do not stop.
Fairness == WF_vars(Isr) /\ WF_vars(Claim \/ Fill \/ RaiseNext \/ Disable \/ Enable)
            /\ WF_vars(RemoteProgress) /\ WF_vars(Engine)
Spec == Init /\ [][Next]_vars /\ Fairness
=============================================================================
