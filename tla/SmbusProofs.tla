----------------------------- MODULE SmbusProofs ------------------------------
(***************************************************************************)
(* Proofs about the SMBus driver: no command is answered twice, whatever   *)
(* the handlers are given, in whatever state (AnsweredAtMostOnce); and     *)
(* each command that meets no transfer to its own instance is answered,    *)
(* with a success only if it ran to its end (EveryCommandAnswered).        *)
(*                                                                         *)
(* The second follows the command in play through its states: what an      *)
(* event does to an instance that is not in play (Aside) and to the one    *)
(* that is (Onward, Ended), handler by handler; then the interrupt         *)
(* handler, the task, the bus and the engine, step by step.                *)
(***************************************************************************)
EXTENDS SmbusProps, TLAPS

\* What the operators on the driver leave alone: the identifier of the command,
\* its instance and the answers.
Same(d, t) == Whole(t) /\ t.txn = d.txn /\ t.inPlay = d.inPlay /\ t.answers = d.answers

\* The states of an instance.
LEMMA StatesAre ==
  /\ \A x \in {"SendCommand", "WriteByte", "SendReadStart", "ReadBlockSize", "ReadByte", "ReadDone"} : x \in States
  /\ \A x \in {"Initial", "AwaitingCommandByte", "AwaitingBlockSize", "AwaitingData", "AwaitingRead",
               "ReadyToSendByte", "CheckIfPecRequired", "AwaitingDone"} : x \in States
BY DEF States, ControllerStates

\* Two operators in turn.
LEMMA SameTwice ==
  ASSUME NEW d, NEW b, NEW c, Same(d, b), Same(b, c) PROVE Same(d, c)
BY DEF Same

\* No operator at all.
LEMMA Itself ==
  ASSUME NEW d, Whole(d) PROVE Same(d, d)
BY DEF Same

\* Each of the operators, in turn.
LEMMA ToSame ==
  ASSUME NEW d, NEW b, Same(d, b), NEW i \in Instances, NEW x \in States PROVE Same(d, To(b, i, x))
<1>1. Same(b, To(b, i, x))
  BY DEF Same, To, Fields, Whole
<1> QED BY <1>1, SameTwice

\* An event is queued.
LEMMA RaiseSame ==
  ASSUME NEW d, NEW b, Same(d, b), NEW i, NEW x PROVE Same(d, Raise(b, i, x))
<1>1. Same(b, Raise(b, i, x))
  BY DEF Same, Raise, Fields, Whole
<1> QED BY <1>1, SameTwice

\* A descriptor of the target.
LEMMA TargetSame ==
  ASSUME NEW d, NEW b, Same(d, b), NEW x PROVE Same(d, Target(b, x))
<1>1. Same(b, Target(b, x))
  BY DEF Same, Target, Fields, Whole
<1> QED BY <1>1, SameTwice

\* Descriptors of the controller.
LEMMA ControlSame ==
  ASSUME NEW d, NEW b, Same(d, b), NEW x PROVE Same(d, Control(b, x))
<1>1. Same(b, Control(b, x))
  BY DEF Same, Control, Fields, Whole
<1> QED BY <1>1, SameTwice

\* The controller is enabled.
LEMMA GoSame ==
  ASSUME NEW d, NEW b, Same(d, b) PROVE Same(d, Go(b))
<1>1. Same(b, Go(b))
  BY DEF Same, Go, Fields, Whole
<1> QED BY <1>1, SameTwice

\* A byte is refused.
LEMMA NackSame ==
  ASSUME NEW d, NEW b, Same(d, b), NEW i \in Instances PROVE Same(d, Nack(b, i))
<1>1. Same(d, Target(b, "nack"))
  BY TargetSame
<1> DEFINE t == Target(b, "nack")
<1>2. Same(t, [t EXCEPT !.inst[i].nack = TRUE])
  <2> HIDE DEF t
  <2> QED BY <1>1 DEF Same, Fields, Whole, t
<1>3. Same(d, [t EXCEPT !.inst[i].nack = TRUE])
  BY <1>1, <1>2, SameTwice
<1> QED BY <1>3 DEF Nack

\* Bytes that are expected are acknowledged.
LEMMA FillAcksSame ==
  ASSUME NEW d, NEW b, Same(d, b), NEW i \in Instances PROVE Same(d, FillAcks(b, i))
<1>1. Same(b, FillAcks(b, i))
  BY DEF Same, FillAcks, Fields, Whole
<1> QED BY <1>1, SameTwice

\* Bytes of a block are asked for.
LEMMA FillReadsSame ==
  ASSUME NEW d, NEW b, Same(d, b), NEW i \in Instances PROVE Same(d, FillReads(b, i))
<1> DEFINE xs(n, e) == Rep("readByte", n) \o (IF ~ e THEN <<>> ELSE IF b.inst[i].pec THEN <<"readPec">> ELSE <<"readStop">>)
           u(ys) == [b EXCEPT !.inst[i].descs = @ + Len(ys)]
<1>1. \A ys : Same(b, u(ys))
  BY DEF Same, Fields, Whole
<1> HIDE DEF u
<1>2. \A ys : Same(d, Go(Control(u(ys), ys)))
  BY <1>1, SameTwice, ControlSame, GoSame
<1>3. FillReads(b, i) = b \/ \E ys : FillReads(b, i) = Go(Control(u(ys), ys))
  BY DEF FillReads, u
<1> QED BY <1>2, <1>3

\* Data go to the application, or come from it.
LEMMA DataSame ==
  ASSUME NEW d, NEW b, Same(d, b), NEW i \in Instances
  PROVE  Same(d, WriteData(b, i)) /\ Same(d, GetData(b, i)) /\ Same(d, DrainTarget(b, i)) /\ Same(d, GetProtocol(b, i))
<1>1. Same(b, WriteData(b, i))
  BY DEF Same, WriteData, Fields, Whole
<1>2. Same(b, GetData(b, i))
  BY DEF Same, GetData, Fields, Whole
<1>3. Same(b, DrainTarget(b, i))
  BY DEF Same, DrainTarget, Fields, Whole
<1>4. Same(b, GetProtocol(b, i))
  BY DEF Same, GetProtocol, Fields, Whole
<1> QED BY <1>1, <1>2, <1>3, <1>4, SameTwice

\* The end of a command or of a transfer: a command is no longer in play, and
\* is answered now or never.
Over(d, i, t) ==
  /\ Whole(t) /\ t.txn = d.txn
  /\ t.inPlay = IF i = d.inPlay THEN None ELSE d.inPlay
  /\ \/ t.answers = d.answers
     \/ i = d.inPlay /\ \E r \in Results : t.answers = Append(d.answers, [id |-> d.txn, result |-> r])

\* An instance goes back to Initial.
LEMMA BackIs ==
  ASSUME NEW d, Whole(d), NEW i \in Instances
  PROVE  /\ Whole(Back(d, i)) /\ Back(d, i).txn = d.txn /\ Back(d, i).answers = d.answers
         /\ Back(d, i).inPlay = IF i = d.inPlay THEN None ELSE d.inPlay
<1> DEFINE t == ResetAllData(d, i)
<1>1. Whole(t) /\ t.txn = d.txn /\ t.answers = d.answers /\ t.inPlay = IF i = d.inPlay THEN None ELSE d.inPlay
  <2> DEFINE r == [FreshData EXCEPT !.state = d.inst[i].state, !.pec = d.inst[i].pec]
             b == [d EXCEPT !.inst[i] = r]
  <2>1. DOMAIN r = InstanceFields /\ r.state \in States
    BY DEF Whole, FreshData, InstanceFields
  <2> HIDE DEF r
  <2>2. Same(d, b)
    BY <2>1 DEF Same, Whole, Fields
  <2> HIDE DEF b
  <2>3. t = IF i = d.inPlay THEN [b EXCEPT !.inPlay = None, !.cRx = <<>>, !.cDesc = <<>>]
            ELSE [b EXCEPT !.active = None, !.tRx = <<>>]
    BY DEF ResetAllData, r, b
  <2> HIDE DEF t
  <2> QED BY <2>2, <2>3 DEF Same, Whole, Fields
<1> HIDE DEF t
<1>2. Same(t, To(t, i, "Initial"))
  BY <1>1, Itself, ToSame, StatesAre
<1> QED BY <1>1, <1>2 DEF Back, Same, t

\* It goes back after an announcement, or with none.
LEMMA BackOver ==
  ASSUME NEW d, Whole(d), NEW i \in Instances, NEW b, Same(d, b), NEW r \in Results
  PROVE  Over(d, i, Back(b, i)) /\ Over(d, i, Back(Announce(b, i, r), i))
<1>1. Over(d, i, Back(b, i))
  BY BackIs DEF Same, Over
<1> DEFINE a == Announce(b, i, r)
<1>2. /\ Whole(a) /\ a.txn = d.txn /\ a.inPlay = d.inPlay
      /\ a.answers = IF i = d.inPlay THEN Append(d.answers, [id |-> d.txn, result |-> r]) ELSE d.answers
  BY DEF Announce, Same, Fields, Whole
<1> HIDE DEF a
<1>3. Over(d, i, Back(a, i))
  <2>1. /\ Whole(Back(a, i)) /\ Back(a, i).txn = a.txn /\ Back(a, i).answers = a.answers
        /\ Back(a, i).inPlay = IF i = a.inPlay THEN None ELSE a.inPlay
    BY <1>2, BackIs
  <2>2. Back(a, i).answers = d.answers \/ (i = d.inPlay /\ \E x \in Results : Back(a, i).answers = Append(d.answers, [id |-> d.txn, result |-> x]))
    BY <1>2, <2>1
  <2> QED BY <1>2, <2>1, <2>2 DEF Over
<1> QED BY <1>1, <1>3 DEF a

\* What a handler leaves of the driver: the command goes on, or it is over.
Handled(d, i, t) == Same(d, t) \/ Over(d, i, t)
LEMMA InitialHandled ==
  ASSUME NEW d, Whole(d), NEW i \in Instances, NEW e
  PROVE  Handled(d, i, Initial(d, i, e))
<1> DEFINE x == [d EXCEPT !.inst[i].expect = 1]
<1>1. Same(d, x)
  BY DEF Same, Fields, Whole
<1> HIDE DEF x
<1>2. Same(d, d)
  BY Itself
<1>3. Over(d, i, Back(d, i)) /\ Over(d, i, Back(Target(d, "data"), i))
  BY <1>2, TargetSame, BackOver DEF Results
<1>4. Same(d, To(d, i, "AwaitingCommandByte"))
  BY <1>2, ToSame, StatesAre
<1>5. Same(d, To(Go(Control(d, <<"quick">>)), i, "AwaitingDone"))
  BY <1>2, ToSame, StatesAre, ControlSame, GoSame
<1>6. Same(d, To(Raise(x, i, "next"), i, "SendReadStart"))
  BY <1>1, ToSame, StatesAre, RaiseSame
<1>7. Same(d, To(Raise(Control(d, <<"start">>), i, "next"), i, "SendCommand"))
  BY <1>2, ToSame, StatesAre, RaiseSame, ControlSame, GoSame
<1> QED BY <1>3, <1>4, <1>5, <1>6, <1>7 DEF Initial, Handled, x

\* The handler of AwaitingCommandByte.
LEMMA AwaitingCommandByteHandled ==
  ASSUME NEW d, Whole(d), NEW i \in Instances, NEW e
  PROVE  Handled(d, i, AwaitingCommandByte(d, i, e))
<1> DEFINE t == GetProtocol(d, i)
           f == [t EXCEPT !.inst[i].expect = Width, !.inst[i].descs = Width + 1,
                          !.tThr = Width, !.tDesc = @ \o Rep("ack", Width + 1)]
<1>1. Same(d, t) /\ Same(d, d)
  BY DataSame DEF Same
<1>2. Whole(t)
  BY <1>1 DEF Same
<1>3. Same(t, f)
  <2> HIDE DEF t
  <2> QED BY <1>2 DEF Same, Fields, Whole
<1> HIDE DEF t, f
<1>4. Over(d, i, Back(d, i))
  BY <1>1, BackOver DEF Results
<1>5. Same(d, To(Target(GetData(t, i), "ack"), i, "AwaitingRead"))
  BY <1>1, ToSame, StatesAre, TargetSame, DataSame
<1>6. Same(d, To(f, i, "AwaitingData")) /\ Same(d, To(Raise(f, i, "tData"), i, "AwaitingData"))
  BY <1>1, <1>3, SameTwice, ToSame, StatesAre, RaiseSame
<1>7. Same(d, To(Target(t, "ack"), i, "AwaitingBlockSize")) /\ Same(d, To(Nack(t, i), i, "AwaitingDone"))
  BY <1>1, ToSame, StatesAre, TargetSame, NackSame
<1>8. \/ AwaitingCommandByte(d, i, e) = d
      \/ AwaitingCommandByte(d, i, e) = To(Target(GetData(t, i), "ack"), i, "AwaitingRead")
      \/ AwaitingCommandByte(d, i, e) = To(f, i, "AwaitingData")
      \/ AwaitingCommandByte(d, i, e) = To(Raise(f, i, "tData"), i, "AwaitingData")
      \/ AwaitingCommandByte(d, i, e) = To(Target(t, "ack"), i, "AwaitingBlockSize")
      \/ AwaitingCommandByte(d, i, e) = To(Nack(t, i), i, "AwaitingDone")
      \/ AwaitingCommandByte(d, i, e) = Back(d, i)
  BY DEF AwaitingCommandByte, t, f
<1> QED BY <1>1, <1>4, <1>5, <1>6, <1>7, <1>8 DEF Handled

\* The handler of AwaitingBlockSize.
LEMMA AwaitingBlockSizeHandled ==
  ASSUME NEW d, Whole(d), NEW i \in Instances, NEW e
  PROVE  Handled(d, i, AwaitingBlockSize(d, i, e))
<1> DEFINE n == Head(d.tRx).val
           a == Target(d, "ack")
           t == [a EXCEPT !.tRx = Tail(@), !.inst[i].expect = n, !.inst[i].buf = <<>>,
                          !.tThr = IF n < Trigger THEN 1 ELSE Trigger]
<1>1. Same(d, d)
  BY Itself
<1>2. Same(d, a)
  BY <1>1, TargetSame
<1>3. Same(d, t)
  <2>1. Same(a, t)
    <3> HIDE DEF n, a
    <3> QED BY <1>2 DEF Same, Fields, Whole
  <2> QED BY <1>2, <2>1, SameTwice
<1> HIDE DEF n, a, t
<1>4. /\ Same(d, To(GetData(t, i), i, "AwaitingRead"))
      /\ Same(d, To(t, i, "AwaitingData"))
  BY <1>1, <1>2, <1>3, ToSame, StatesAre, DataSame
<1>5. Over(d, i, Back(d, i))
  BY <1>1, <1>2, <1>3, BackOver DEF Results
<1>6. AwaitingBlockSize(d, i, e) \in
        {d,
         To(GetData(t, i), i, "AwaitingRead"),
         To(t, i, "AwaitingData"),
         Back(d, i)}
  BY DEF AwaitingBlockSize, n, a, t
<1> QED BY <1>1, <1>2, <1>3, <1>4, <1>5, <1>6 DEF Handled

\* The handler of AwaitingData.
LEMMA AwaitingDataHandled ==
  ASSUME NEW d, Whole(d), NEW i \in Instances, NEW e
  PROVE  Handled(d, i, AwaitingData(d, i, e))
<1> DEFINE t == DrainTarget(d, i)
           f == [t EXCEPT !.tThr = 1]
           w == WriteData(f, i)
           o == [t EXCEPT !.tThr = IF Trigger > t.inst[i].expect - Len(t.inst[i].buf) THEN 1 ELSE Trigger]
<1>1. Same(d, d)
  BY Itself
<1>2. Same(d, t)
  BY <1>1, DataSame
<1>3. Same(d, f)
  <2>1. Same(t, f)
    <3> HIDE DEF t, w, o
    <3> QED BY <1>2 DEF Same, Fields, Whole
  <2> QED BY <1>2, <2>1, SameTwice
<1>4. Same(d, o)
  <2>1. Same(t, o)
    <3> HIDE DEF t, f, w
    <3> QED BY <1>2 DEF Same, Fields, Whole
  <2> QED BY <1>2, <2>1, SameTwice
<1>5. Same(d, w)
  BY <1>1, DataSame, <1>3
<1> HIDE DEF t, f, w, o
<1>6. /\ Same(d, FillAcks(d, i))
      /\ Same(d, Raise(d, i, "tRead"))
      /\ Same(d, To(GetData(f, i), i, "AwaitingRead"))
      /\ Same(d, To(GetData(w, i), i, "AwaitingRead"))
      /\ Same(d, To(f, i, "AwaitingDone"))
  BY <1>1, <1>2, <1>3, <1>4, <1>5, ToSame, StatesAre, RaiseSame, FillAcksSame, DataSame
<1>7. /\ Over(d, i, Back(Announce(d, i, "error"), i))
      /\ Over(d, i, Back(d, i))
  BY <1>1, <1>2, <1>3, <1>4, <1>5, BackOver DEF Results
<1>8. AwaitingData(d, i, e) \in
        {FillAcks(d, i),
         Raise(d, i, "tRead"),
         Back(Announce(d, i, "error"), i),
         d,
         o,
         To(GetData(f, i), i, "AwaitingRead"),
         To(GetData(w, i), i, "AwaitingRead"),
         To(f, i, "AwaitingDone"),
         Back(d, i)}
  BY DEF AwaitingData, t, f, w, o
<1> QED BY <1>1, <1>2, <1>3, <1>4, <1>5, <1>6, <1>7, <1>8 DEF Handled

\* The handler of AwaitingRead.
LEMMA AwaitingReadHandled ==
  ASSUME NEW d, Whole(d), NEW i \in Instances, NEW e
  PROVE  Handled(d, i, AwaitingRead(d, i, e))
<1>1. Same(d, d)
  BY Itself
<1>2. /\ Same(d, FillAcks(d, i))
      /\ Same(d, To(d, i, "ReadyToSendByte"))
  BY <1>1, ToSame, StatesAre, FillAcksSame
<1>3. Over(d, i, Back(d, i))
  BY <1>1, BackOver DEF Results
<1>4. AwaitingRead(d, i, e) \in
        {FillAcks(d, i),
         To(d, i, "ReadyToSendByte"),
         d,
         Back(d, i)}
  BY DEF AwaitingRead
<1> QED BY <1>1, <1>2, <1>3, <1>4 DEF Handled

\* The handler of ReadyToSendByte.
LEMMA ReadyToSendByteHandled ==
  ASSUME NEW d, Whole(d), NEW i \in Instances, NEW e
  PROVE  Handled(d, i, ReadyToSendByte(d, i, e))
<1> DEFINE n == Least(Room(d.tDesc), d.inst[i].size - d.inst[i].send)
           t == [d EXCEPT !.tDesc = @ \o Rep("data", n), !.inst[i].send = @ + n]
<1>1. Same(d, d)
  BY Itself
<1>2. Same(d, t)
  <2>1. Same(d, t)
    <3> HIDE DEF n
    <3> QED BY <1>1 DEF Same, Fields, Whole
  <2> QED BY <1>1, <2>1, SameTwice
<1> HIDE DEF n, t
<1>3. Same(d, To(Raise(t, i, "pec"), i, "CheckIfPecRequired"))
  BY <1>1, <1>2, ToSame, StatesAre, RaiseSame
<1>4. Over(d, i, Back(d, i))
  BY <1>1, <1>2, BackOver DEF Results
<1>5. ReadyToSendByte(d, i, e) \in
        {To(Raise(t, i, "pec"), i, "CheckIfPecRequired"),
         t,
         d,
         Back(d, i)}
  BY DEF ReadyToSendByte, n, t
<1> QED BY <1>1, <1>2, <1>3, <1>4, <1>5 DEF Handled

\* The handler of CheckIfPecRequired.
LEMMA CheckIfPecRequiredHandled ==
  ASSUME NEW d, Whole(d), NEW i \in Instances, NEW e
  PROVE  Handled(d, i, CheckIfPecRequired(d, i, e))
<1>1. Same(d, d)
  BY Itself
<1>2. /\ Same(d, To(d, i, "AwaitingDone"))
      /\ Same(d, Raise(d, i, "pec"))
      /\ Same(d, To(Target(d, "pec"), i, "AwaitingDone"))
  BY <1>1, ToSame, StatesAre, RaiseSame, TargetSame
<1>3. Over(d, i, Back(d, i))
  BY <1>1, BackOver DEF Results
<1>4. CheckIfPecRequired(d, i, e) \in
        {To(d, i, "AwaitingDone"),
         Raise(d, i, "pec"),
         To(Target(d, "pec"), i, "AwaitingDone"),
         Back(d, i)}
  BY DEF CheckIfPecRequired
<1> QED BY <1>1, <1>2, <1>3, <1>4 DEF Handled

\* The handler of AwaitingDone.
LEMMA AwaitingDoneHandled ==
  ASSUME NEW d, Whole(d), NEW i \in Instances, NEW e
  PROVE  Handled(d, i, AwaitingDone(d, i, e))
<1> DEFINE a == FillAcks(d, i)
           b == [d EXCEPT !.inst[i].empties = @ + 1]
           c == [a EXCEPT !.inst[i].empties = @ + 1]
           k == Nack(d, i)
           n == [k EXCEPT !.inst[i].empties = @ + 1]
           x == Target(b, "pec")
           y == Target(c, "pec")
           p == [x EXCEPT !.inst[i].pecSent = TRUE]
           q == [y EXCEPT !.inst[i].pecSent = TRUE]
           w == WriteData(d, i)
<1>1. Same(d, d)
  BY Itself
<1>2. Same(d, a) /\ Same(d, k) /\ Same(d, w)
  BY <1>1, FillAcksSame, NackSame, DataSame
<1>3. Same(d, b)
  <2>1. Same(d, b)
    <3> HIDE DEF a, c, k, n, x, y, p, q, w
    <3> QED BY <1>1 DEF Same, Fields, Whole
  <2> QED BY <1>1, <2>1, SameTwice
<1>4. Same(d, c)
  <2>1. Same(a, c)
    <3> HIDE DEF a, b, k, n, x, y, p, q, w
    <3> QED BY <1>2 DEF Same, Fields, Whole
  <2> QED BY <1>2, <2>1, SameTwice
<1>5. Same(d, n)
  <2>1. Same(k, n)
    <3> HIDE DEF a, b, c, k, x, y, p, q, w
    <3> QED BY <1>2 DEF Same, Fields, Whole
  <2> QED BY <1>2, <2>1, SameTwice
<1>6. Same(d, x) /\ Same(d, y)
  BY TargetSame, <1>3, <1>4
<1>7. Same(d, p)
  <2>1. Same(x, p)
    <3> HIDE DEF a, b, c, k, n, x, y, q, w
    <3> QED BY <1>6 DEF Same, Fields, Whole
  <2> QED BY <1>6, <2>1, SameTwice
<1>8. Same(d, q)
  <2>1. Same(y, q)
    <3> HIDE DEF a, b, c, k, n, x, y, p, w
    <3> QED BY <1>6 DEF Same, Fields, Whole
  <2> QED BY <1>6, <2>1, SameTwice
<1> HIDE DEF a, b, c, k, n, x, y, p, q, w
<1>9. Same(d, DrainTarget(d, i))
  BY <1>1, <1>2, <1>3, <1>4, <1>5, <1>6, <1>7, <1>8, DataSame
<1>10. /\ Over(d, i, Back(Announce(d, i, "error"), i))
      /\ Over(d, i, Back(Announce(d, i, "ok"), i))
      /\ Over(d, i, Back(Announce(w, i, "error"), i))
      /\ Over(d, i, Back(Announce(w, i, "ok"), i))
      /\ Over(d, i, Back(d, i))
  BY <1>1, <1>2, <1>3, <1>4, <1>5, <1>6, <1>7, <1>8, BackOver, SMTT(30) DEF Results
<1>11. AwaitingDone(d, i, e) \in
        {d,
         n,
         b,
         c,
         p,
         q,
         k,
         Back(Announce(d, i, "error"), i),
         Back(Announce(d, i, "ok"), i),
         Back(Announce(w, i, "error"), i),
         Back(Announce(w, i, "ok"), i),
         DrainTarget(d, i),
         Back(d, i)}
  BY Zenon DEF AwaitingDone, a, b, c, k, n, x, y, p, q, w
<1> QED BY <1>1, <1>2, <1>3, <1>4, <1>5, <1>6, <1>7, <1>8, <1>9, <1>10, <1>11 DEF Handled

\* The handler of SendCommand.
LEMMA SendCommandHandled ==
  ASSUME NEW d, Whole(d), NEW i \in Instances, NEW e
  PROVE  Handled(d, i, SendCommand(d, i, e))
<1> DEFINE t == Raise(Control(d, <<"byte">>), i, "next")
<1>1. Same(d, d)
  BY Itself
<1>2. Same(d, t)
  BY <1>1, ControlSame, RaiseSame
<1> HIDE DEF t
<1>3. /\ Same(d, To(t, i, "SendReadStart"))
      /\ Same(d, To(t, i, "WriteByte"))
      /\ Same(d, To(Raise(d, i, "next"), i, "WriteByte"))
  BY <1>1, <1>2, ToSame, StatesAre, RaiseSame
<1>4. Over(d, i, Back(d, i))
  BY <1>1, <1>2, BackOver DEF Results
<1>5. SendCommand(d, i, e) \in
        {To(t, i, "SendReadStart"),
         To(t, i, "WriteByte"),
         To(Raise(d, i, "next"), i, "WriteByte"),
         d,
         Back(d, i)}
  BY DEF SendCommand, t
<1> QED BY <1>1, <1>2, <1>3, <1>4, <1>5 DEF Handled

\* The handler of WriteByte.
LEMMA WriteByteHandled ==
  ASSUME NEW d, Whole(d), NEW i \in Instances, NEW e
  PROVE  Handled(d, i, WriteByte(d, i, e))
<1> DEFINE n == Least(Room(d.cDesc), d.inst[i].size - 1)
           a == Go(Control(d, Rep("byte", n)))
           b == [a EXCEPT !.inst[i].size = @ - n, !.inst[i].send = @ + n]
<1>1. Same(d, d)
  BY Itself
<1>2. Same(d, a)
  BY <1>1, ControlSame, GoSame, SMTT(30)
<1>3. Same(d, b)
  <2>1. Same(a, b)
    <3> HIDE DEF n, a
    <3> QED BY <1>2 DEF Same, Fields, Whole
  <2> QED BY <1>2, <2>1, SameTwice
<1> HIDE DEF n, a, b
<1>4. /\ Same(d, To(Raise(Control(d, <<"byte">>), i, "next"), i, "SendReadStart"))
      /\ Same(d, To(Go(Control(d, <<"byte", "pecWrite">>)), i, "AwaitingDone"))
      /\ Same(d, To(Go(Control(d, <<"stopWrite">>)), i, "AwaitingDone"))
      /\ Same(d, Go(d))
  BY <1>1, <1>2, <1>3, ToSame, StatesAre, RaiseSame, ControlSame, GoSame
<1>5. Over(d, i, Back(d, i))
  BY <1>1, <1>2, <1>3, BackOver DEF Results
<1>6. WriteByte(d, i, e) \in
        {d,
         b,
         To(Raise(Control(d, <<"byte">>), i, "next"), i, "SendReadStart"),
         To(Go(Control(d, <<"byte", "pecWrite">>)), i, "AwaitingDone"),
         To(Go(Control(d, <<"stopWrite">>)), i, "AwaitingDone"),
         Go(d),
         Back(d, i)}
  BY DEF WriteByte, n, a, b
<1> QED BY <1>1, <1>2, <1>3, <1>4, <1>5, <1>6 DEF Handled

\* The handler of SendReadStart.
LEMMA SendReadStartHandled ==
  ASSUME NEW d, Whole(d), NEW i \in Instances, NEW e
  PROVE  Handled(d, i, SendReadStart(d, i, e))
<1> DEFINE n == IF d.inst[i].proto = "receive" THEN 1 ELSE Width
           xs == <<"readStart">> \o (IF d.inst[i].pec THEN Rep("readByte", n) \o <<"readPec">>
                                 ELSE Rep("readByte", n - 1) \o <<"readStop">>)
           a == [d EXCEPT !.inst[i].descs = 0]
           b == [d EXCEPT !.inst[i].expect = n, !.inst[i].descs = n, !.cThr = n]
<1>1. Same(d, d)
  BY Itself
<1>2. Same(d, a)
  <2>1. Same(d, a)
    <3> HIDE DEF n, xs, b
    <3> QED BY <1>1 DEF Same, Fields, Whole
  <2> QED BY <1>1, <2>1, SameTwice
<1>3. Same(d, b)
  <2>1. Same(d, b)
    <3> HIDE DEF n, xs, a
    <3> QED BY <1>1 DEF Same, Fields, Whole
  <2> QED BY <1>1, <2>1, SameTwice
<1> HIDE DEF n, xs, a, b
<1>4. /\ Same(d, To(Go(Control(a, <<"readStart">>)), i, "ReadBlockSize"))
      /\ Same(d, To(Go(Control(b, xs)), i, "ReadByte"))
  BY <1>1, <1>2, <1>3, ToSame, StatesAre, ControlSame, GoSame
<1>5. Over(d, i, Back(d, i))
  BY <1>1, <1>2, <1>3, BackOver DEF Results
<1>6. SendReadStart(d, i, e) \in
        {To(Go(Control(a, <<"readStart">>)), i, "ReadBlockSize"),
         To(Go(Control(b, xs)), i, "ReadByte"),
         d,
         Back(d, i)}
  BY DEF SendReadStart, n, xs, a, b
<1> QED BY <1>1, <1>2, <1>3, <1>4, <1>5, <1>6 DEF Handled

\* The handler of ReadBlockSize.
LEMMA ReadBlockSizeHandled ==
  ASSUME NEW d, Whole(d), NEW i \in Instances, NEW e
  PROVE  Handled(d, i, ReadBlockSize(d, i, e))
<1> DEFINE n == IF d.cRx = <<>> THEN 0 ELSE Head(d.cRx).val
           t == [d EXCEPT !.cRx = IF @ = <<>> THEN @ ELSE Tail(@), !.inst[i].expect = n,
                          !.inst[i].descs = 0, !.cThr = IF n > 0 THEN Least(n, Half) ELSE @]
<1>1. Same(d, d)
  BY Itself
<1>2. Same(d, t)
  <2>1. Same(d, t)
    <3> HIDE DEF n
    <3> QED BY <1>1 DEF Same, Fields, Whole
  <2> QED BY <1>1, <2>1, SameTwice
<1> HIDE DEF n, t
<1>3. /\ Same(d, To(Go(Control(t, <<"readByte", "readPec">>)), i, "ReadByte"))
      /\ Same(d, To(Go(Control(t, <<"readByte">>)), i, "ReadByte"))
      /\ Same(d, To(Go(Control(t, <<"readStop">>)), i, "ReadDone"))
  BY <1>1, <1>2, ToSame, StatesAre, ControlSame, GoSame
<1>4. Over(d, i, Back(d, i))
  BY <1>1, <1>2, BackOver DEF Results
<1>5. ReadBlockSize(d, i, e) \in
        {d,
         To(Go(Control(t, <<"readByte", "readPec">>)), i, "ReadByte"),
         To(Go(Control(t, <<"readByte">>)), i, "ReadByte"),
         To(Go(Control(t, <<"readStop">>)), i, "ReadDone"),
         Back(d, i)}
  BY DEF ReadBlockSize, n, t
<1> QED BY <1>1, <1>2, <1>3, <1>4, <1>5 DEF Handled

\* The handler of ReadByte.
LEMMA ReadByteHandled ==
  ASSUME NEW d, Whole(d), NEW i \in Instances, NEW e
  PROVE  Handled(d, i, ReadByte(d, i, e))
<1> DEFINE t == [d EXCEPT !.inst[i].buf = @ \o d.cRx, !.cRx = <<>>]
           l == t.inst[i].expect - Len(t.inst[i].buf)
           a == [t EXCEPT !.cThr = Least(l, Half)]
           b == [t EXCEPT !.cThr = 1]
<1>1. Same(d, d)
  BY Itself
<1>2. Same(d, t)
  <2>1. Same(d, t)
    <3> HIDE DEF l, a, b
    <3> QED BY <1>1 DEF Same, Fields, Whole
  <2> QED BY <1>1, <2>1, SameTwice
<1>3. Same(d, a)
  <2>1. Same(t, a)
    <3> HIDE DEF t, l, b
    <3> QED BY <1>2 DEF Same, Fields, Whole
  <2> QED BY <1>2, <2>1, SameTwice
<1>4. Same(d, b)
  <2>1. Same(t, b)
    <3> HIDE DEF t, l, a
    <3> QED BY <1>2 DEF Same, Fields, Whole
  <2> QED BY <1>2, <2>1, SameTwice
<1> HIDE DEF t, l, a, b
<1>5. /\ Same(d, FillReads(d, i))
      /\ Same(d, To(b, i, "ReadDone"))
  BY <1>1, <1>2, <1>3, <1>4, ToSame, StatesAre, FillReadsSame
<1>6. Over(d, i, Back(d, i))
  BY <1>1, <1>2, <1>3, <1>4, BackOver DEF Results
<1>7. ReadByte(d, i, e) \in
        {FillReads(d, i),
         d,
         a,
         b,
         To(b, i, "ReadDone"),
         Back(d, i)}
  BY DEF ReadByte, t, l, a, b
<1> QED BY <1>1, <1>2, <1>3, <1>4, <1>5, <1>6, <1>7 DEF Handled

\* The handler of ReadDone.
LEMMA ReadDoneHandled ==
  ASSUME NEW d, Whole(d), NEW i \in Instances, NEW e
  PROVE  Handled(d, i, ReadDone(d, i, e))
<1> DEFINE a == [d EXCEPT !.inst[i].descs = @ + 1]
           w == WriteData(d, i)
<1>1. Same(d, d)
  BY Itself
<1>2. Same(d, a)
  <2>1. Same(d, a)
    <3> HIDE DEF w
    <3> QED BY <1>1 DEF Same, Fields, Whole
  <2> QED BY <1>1, <2>1, SameTwice
<1>3. Same(d, w)
  BY <1>1, DataSame
<1> HIDE DEF a, w
<1>4. /\ Same(d, FillReads(d, i))
      /\ Same(d, Control(a, <<"readPec">>))
  BY <1>1, <1>2, <1>3, ControlSame, FillReadsSame
<1>5. /\ Over(d, i, Back(Announce(d, i, "ok"), i))
      /\ Over(d, i, Back(Announce(w, i, "ok"), i))
      /\ Over(d, i, Back(d, i))
  BY <1>1, <1>2, <1>3, BackOver DEF Results
<1>6. ReadDone(d, i, e) \in
        {d,
         FillReads(d, i),
         Control(a, <<"readPec">>),
         Back(Announce(d, i, "ok"), i),
         Back(Announce(w, i, "ok"), i),
         Back(d, i)}
  BY DEF ReadDone, a, w
<1> QED BY <1>1, <1>2, <1>3, <1>4, <1>5, <1>6 DEF Handled

\* Every event, in every state.
LEMMA FsmHandled ==
  ASSUME NEW d, Whole(d), NEW i \in Instances, NEW e
  PROVE  Handled(d, i, Fsm(d, i, e))
<1>1. CASE e = "cError"
  <2>1. Over(d, i, Back(Announce(d, i, "error"), i))
    BY Itself, BackOver DEF Results
  <2> QED BY <1>1, <2>1 DEF Fsm, Handled
<1>2. CASE e # "cError"
  <2>1. d.inst[i].state \in States
    BY DEF Whole
  <2>2. Fsm(d, i, e) \in
          {Initial(d, i, e), AwaitingCommandByte(d, i, e), AwaitingBlockSize(d, i, e), AwaitingData(d, i, e),
           AwaitingRead(d, i, e), ReadyToSendByte(d, i, e), CheckIfPecRequired(d, i, e), AwaitingDone(d, i, e),
           SendCommand(d, i, e), WriteByte(d, i, e), SendReadStart(d, i, e), ReadBlockSize(d, i, e),
           ReadByte(d, i, e), ReadDone(d, i, e)}
    BY <1>2, <2>1 DEF Fsm, States, ControllerStates
  <2> QED BY <2>2, InitialHandled, AwaitingCommandByteHandled, AwaitingBlockSizeHandled, AwaitingDataHandled,
             AwaitingReadHandled, ReadyToSendByteHandled, CheckIfPecRequiredHandled, AwaitingDoneHandled,
             SendCommandHandled, WriteByteHandled, SendReadStartHandled, ReadBlockSizeHandled,
             ReadByteHandled, ReadDoneHandled
<1> QED BY <1>1, <1>2

-----------------------------------------------------------------------------
(* The steps of the driver, and of what is around it.                       *)

\* The interrupt handler queues events and enables or disables bits.
LEMMA IsrSame ==
  ASSUME Whole(s), IsrEnter \/ IsrController \/ IsrExit
  PROVE  Same(s, s')
<1>1. \A d, i, es : Whole(d) => Same(d, Queued(d, i, es))
  BY DEF Queued, Same, Whole, Fields
<1>2. Same(s, s)
  BY Itself
<1>3. CASE IsrEnter
  <2> DEFINE a(x) == [s EXCEPT !.active = x]
             b(x) == [a(x) EXCEPT !.tRx = <<>>]
  <2>1. \A x : Same(s, a(x))
    BY DEF Same, Whole, Fields
  <2>2. \A x : Same(a(x), b(x))
    <3> HIDE DEF a
    <3> QED BY <2>1 DEF Same, Whole, Fields
  <2> HIDE DEF a, b
  <2>3. \A x : Same(s, b(x)) /\ \A i, es : Same(s, Queued(a(x), i, es))
    <3> SUFFICES ASSUME NEW x, NEW i, NEW es PROVE Same(s, b(x)) /\ Same(s, Queued(a(x), i, es))
      OBVIOUS
    <3>1. Same(s, a(x)) /\ Same(a(x), b(x)) /\ Whole(a(x))
      BY <2>1, <2>2 DEF Same
    <3>2. Same(a(x), Queued(a(x), i, es))
      BY <1>1, <3>1
    <3> QED BY <3>1, <3>2, SameTwice
  <2>4. PICK x, vec : s' = s \/ s' = b(x) \/ s' = Queued(a(x), x, TargetEvents(vec))
    BY <1>3, Zenon DEF IsrEnter, a, b
  <2> QED BY <1>2, <2>3, <2>4
<1>4. CASE IsrController
  <2>1. Same(s, [s EXCEPT !.cRx = <<>>, !.cDesc = <<>>])
    BY DEF Same, Whole, Fields
  <2>2. \/ s' = s
        \/ s' = [s EXCEPT !.cRx = <<>>, !.cDesc = <<>>]
        \/ s' = Queued(s, s.inPlay, ControllerEvents(isr.vec))
    BY <1>4 DEF IsrController
  <2> QED BY <1>1, <1>2, <2>1, <2>2
<1>5. CASE IsrExit
  BY <1>5 DEF IsrExit, Same, Whole, Fields
<1> QED BY <1>3, <1>4, <1>5

\* The task, but for the step that claims the driver.
LEMMA TaskSame ==
  ASSUME Whole(s), Fill \/ RaiseNext \/ Disable \/ Enable \/ \E i, p, n, pec : Check(i, p, n, pec)
  PROVE  Same(s, s')
<1>1. CASE Fill
  <2>1. s' = [s EXCEPT !.inst[task.inst].size = task.n, !.inst[task.inst].send = 0,
                       !.inst[task.inst].proto = task.proto, !.inst[task.inst].pec = task.pec,
                       !.cDesc = <<>>, !.cRx = <<>>]
    BY <1>1 DEF Fill
  <2>2. DOMAIN s' = DOMAIN s /\ s'.txn = s.txn /\ s'.inPlay = s.inPlay /\ s'.answers = s.answers
    BY <2>1 DEF Whole, Fields
  <2>3. DOMAIN s'.inst = DOMAIN s.inst
    BY <2>1 DEF Whole, Fields
  <2>4. ASSUME NEW j \in Instances
        PROVE  DOMAIN s'.inst[j] = DOMAIN s.inst[j] /\ s'.inst[j].state = s.inst[j].state
    BY <2>1 DEF Whole, Fields, InstanceFields
  <2> QED BY <2>2, <2>3, <2>4 DEF Same, Whole
<1>2. CASE RaiseNext
  BY <1>2, Itself, RaiseSame DEF RaiseNext
<1>3. CASE Disable \/ \E i, p, n, pec : Check(i, p, n, pec)
  BY <1>3, Itself DEF Disable, Check
<1>4. CASE Enable
  BY <1>4 DEF Enable, Same, Whole, Fields
<1> QED BY <1>1, <1>2, <1>3, <1>4

\* The bus and the engine only move what is in the FIFOs.
LEMMA BusSame ==
  ASSUME Whole(s), Remote \/ RemoteProgress \/ Engine \/ EngineNack
  PROVE  Same(s, s')
<1>1. CASE \E j, p, n : RemoteStart(j, p, n)
  BY <1>1 DEF RemoteStart, Same, Whole, Fields
<1>2. CASE RemoteAbandon \/ RemoteRestart \/ RemoteTimeout
  BY <1>2, Itself DEF RemoteAbandon, RemoteRestart, RemoteTimeout
<1>3. CASE RemoteByte
  BY <1>3 DEF RemoteByte, Same, Whole, Fields
<1>4. CASE RemoteAnswered
  BY <1>4 DEF RemoteAnswered, Same, Whole, Fields
<1>5. CASE RemoteRead \/ RemoteStop
  BY <1>5 DEF RemoteRead, RemoteStop, Same, Whole, Fields
<1>6. ASSUME NEW e, NEW x, Run(e, x) PROVE Same(s, s')
  <2>1. \/ s' = [s EXCEPT !.cDesc = Tail(@), !.go = FALSE]
        \/ s' = [s EXCEPT !.cDesc = Tail(@), !.cRx = Append(@, Arrives(e))]
        \/ s' = [s EXCEPT !.cDesc = Tail(@)]
    BY <1>6 DEF Run
  <2> QED BY <2>1 DEF Same, Whole, Fields
<1>7. CASE EngineStart \/ EngineStep
  BY <1>6, <1>7 DEF EngineStart, EngineStep
<1>8. CASE EngineNack \/ EngineTimeout
  BY <1>8 DEF EngineNack, EngineTimeout, Same, Whole, Fields
<1> QED BY <1>1, <1>2, <1>3, <1>4, <1>5, <1>7, <1>8 DEF Remote, RemoteProgress, Engine

-----------------------------------------------------------------------------
(* The invariant.                                                           *)

\* A step that leaves the answers and the command alone.
LEMMA SameKeeps ==
  ASSUME AnswersInv, Same(s, s')
  PROVE  AnswersInv'
BY DEF AnswersInv, AtMostOnce, Same

\* A command or a transfer is over.
LEMMA OverKeeps ==
  ASSUME AnswersInv, NEW i \in Instances, Over(s, i, s')
  PROVE  AnswersInv'
<1> DEFINE Answer(n) == [id : 0 .. n, result : Results]
           Ids(a, n) == \A k \in DOMAIN a : a[k].id # n
           Once(a) == \A j, k \in DOMAIN a : j # k => a[j].id # a[k].id
<1>1. /\ Whole(s') /\ s'.txn = s.txn /\ s.txn \in Nat /\ s.answers \in Seq(Answer(s.txn)) /\ Once(s.answers)
      /\ s'.inPlay = IF i = s.inPlay THEN None ELSE s.inPlay
      /\ s.inPlay # None => Ids(s.answers, s.txn)
  BY DEF AnswersInv, AtMostOnce, Over
<1>2. CASE s'.answers = s.answers
  BY <1>1, <1>2 DEF AnswersInv, AtMostOnce
<1>3. CASE s'.answers # s.answers
  <2>1. PICK r \in Results : i = s.inPlay /\ s'.answers = Append(s.answers, [id |-> s.txn, result |-> r])
    BY <1>3 DEF Over
  <2> DEFINE x == [id |-> s.txn, result |-> r]
             a == s.answers
  <2>2. x \in Answer(s.txn) /\ x.id = s.txn
    BY <1>1
  <2>3. i # None
    BY SmbusAssumption
  <2>4. Ids(a, s.txn) /\ s'.inPlay = None
    BY <1>1, <2>1, <2>3
  <2> HIDE DEF x
  <2>5. Append(a, x) \in Seq(Answer(s.txn))
    BY <1>1, <2>2
  <2>6. /\ Len(a) \in Nat /\ DOMAIN a = 1 .. Len(a) /\ DOMAIN Append(a, x) = 1 .. Len(a) + 1
        /\ \A k \in 1 .. Len(a) : Append(a, x)[k] = a[k]
        /\ Append(a, x)[Len(a) + 1] = x
    <3> HIDE DEF Answer
    <3> QED BY <1>1, <2>2
  <2>7. Once(Append(a, x))
    <3> SUFFICES ASSUME NEW j \in 1 .. Len(a) + 1, NEW k \in 1 .. Len(a) + 1, j # k
                 PROVE  Append(a, x)[j].id # Append(a, x)[k].id
      BY <2>6
    <3>1. CASE j \in 1 .. Len(a) /\ k \in 1 .. Len(a)
      BY <1>1, <2>6, <3>1
    <3>2. CASE j = Len(a) + 1
      <4>1. k \in 1 .. Len(a)
        BY <2>6, <3>2
      <4> QED BY <2>2, <2>4, <2>6, <3>2, <4>1
    <3>3. CASE k = Len(a) + 1
      <4>1. j \in 1 .. Len(a)
        BY <2>6, <3>3
      <4> QED BY <2>2, <2>4, <2>6, <3>3, <4>1
    <3> QED BY <2>6, <3>1, <3>2, <3>3
  <2>8. s'.answers = Append(a, x)
    BY <2>1 DEF x
  <2> HIDE DEF a
  <2> QED BY <1>1, <2>4, <2>5, <2>7, <2>8 DEF AnswersInv, AtMostOnce
<1> QED BY <1>2, <1>3

\* A command is claimed: it has an identifier that no answer has.
LEMMA ClaimKeeps ==
  ASSUME AnswersInv, Claim
  PROVE  AnswersInv'
<1>1. s' = [s EXCEPT !.txn = @ + 1, !.inPlay = task.inst]
  BY DEF Claim
<1>2. Whole(s') /\ s'.txn = s.txn + 1 /\ s'.answers = s.answers /\ s.txn \in Nat
  BY <1>1 DEF AnswersInv, Whole, Fields
<1> DEFINE Answer(n) == [id : 0 .. n, result : Results]
           a == s.answers
<1>3. a \in Seq(Answer(s.txn)) /\ \A j, k \in DOMAIN a : j # k => a[j].id # a[k].id
  BY DEF AnswersInv, AtMostOnce
<1>4. \A k \in DOMAIN a : a[k] \in Answer(s.txn)
  <2> HIDE DEF Answer
  <2> QED BY <1>3
<1>5. \A k \in DOMAIN a : a[k].id \in 0 .. s.txn
  BY <1>4
<1>6. \A k \in DOMAIN a : a[k].id # s.txn + 1
  BY <1>2, <1>5
<1>7. a \in Seq(Answer(s.txn + 1))
  <2>1. Answer(s.txn) \subseteq Answer(s.txn + 1)
    BY <1>2
  <2> HIDE DEF Answer
  <2> QED BY <1>3, <2>1
<1> QED BY <1>2, <1>3, <1>6, <1>7 DEF AnswersInv, AtMostOnce

\* Every step keeps the invariant.
LEMMA NextKeeps ==
  ASSUME AnswersInv, [Next]_vars
  PROVE  AnswersInv'
<1>1. Whole(s)
  BY DEF AnswersInv
<1>2. CASE UNCHANGED vars
  BY <1>2 DEF vars, AnswersInv, AtMostOnce
<1>3. CASE HandleEvent
  <2>1. PICK i \in Instances : s' = Fsm([s EXCEPT !.queue[i] = Tail(@)], i, Head(s.queue[i]))
    BY <1>3 DEF HandleEvent
  <2> DEFINE d == [s EXCEPT !.queue[i] = Tail(@)]
  <2>2. Same(s, d)
    BY <1>1 DEF Same, Whole, Fields
  <2> HIDE DEF d
  <2>3. Handled(d, i, Fsm(d, i, Head(s.queue[i])))
    BY <2>2, FsmHandled DEF Same
  <2>4. Handled(d, i, s')
    BY <2>1, <2>3 DEF d
  <2>5. Same(s, s') \/ Over(s, i, s')
    BY <2>2, <2>4 DEF Handled, Same, Over
  <2> QED BY <2>5, SameKeeps, OverKeeps
<1>4. CASE IsrEnter \/ IsrController \/ IsrExit
  BY <1>1, <1>4, IsrSame, SameKeeps
<1>5. CASE Claim
  BY <1>5, ClaimKeeps
<1>6. CASE Initiate /\ ~ Claim
  <2>1. Fill \/ RaiseNext \/ Disable \/ Enable \/ \E i, p, n, pec : Check(i, p, n, pec)
    BY <1>6 DEF Initiate
  <2> QED BY <1>1, <2>1, TaskSame, SameKeeps
<1>7. CASE Remote \/ RemoteProgress \/ Engine \/ EngineNack
  BY <1>1, <1>7, BusSame, SameKeeps
<1> QED BY <1>2, <1>3, <1>4, <1>5, <1>6, <1>7 DEF Next, Isr

\* The invariant holds when the driver starts.
LEMMA InitHolds ==
  ASSUME Init PROVE AnswersInv
<1>1. /\ DOMAIN s = Fields /\ s.txn = 0 /\ s.inPlay = None /\ s.answers = <<>>
      /\ s.inst = [i \in Instances |-> FreshData]
  BY DEF Init, Fields
<1>2. DOMAIN FreshData = InstanceFields /\ FreshData.state \in States
  BY StatesAre DEF FreshData, InstanceFields
<1>3. Whole(s)
  BY <1>1, <1>2 DEF Whole
<1> QED BY <1>1, <1>3 DEF AnswersInv, AtMostOnce

\* The identifiers that the driver announces to the application: whatever
\* events the handlers get, in whatever state and order, no command has two
\* answers, none has the identifier of a command that was not started, and the
\* command in play has none yet (vSMBusHandleActionAnnounceResultToApplication
\* and vSMBusResetAllData).  It is the first part of AnsweredOnce.
THEOREM AnsweredAtMostOnce == Spec => []AnswersInv /\ []AtMostOnce
<1>1. AnswersInv /\ [Next]_vars => AnswersInv'
  BY NextKeeps
<1>2. Init => AnswersInv
  BY InitHolds
<1>3. AnswersInv => AtMostOnce
  BY DEF AnswersInv
<1> QED BY <1>1, <1>2, <1>3, PTL DEF Spec

-----------------------------------------------------------------------------
(* A transfer to an instance that is not in play.                           *)

\* The elements of a sequence.
LEMMA HeadAndTail ==
  ASSUME NEW S, NEW q \in Seq(S), q # <<>>
  PROVE  /\ Head(q) \in S /\ Tail(q) \in Seq(S)
         /\ Head(q) \in ToSet(q) /\ ToSet(Tail(q)) \subseteq ToSet(q)
         /\ ToSet(q) = {Head(q)} \cup ToSet(Tail(q))
<1>1. Len(q) \in Nat /\ Len(q) # 0 /\ DOMAIN q = 1 .. Len(q) /\ Head(q) = q[1]
  OBVIOUS
<1>2. Tail(q) \in Seq(S) /\ DOMAIN Tail(q) = 1 .. Len(q) - 1 /\ \A k \in 1 .. Len(q) - 1 : Tail(q)[k] = q[k + 1]
  OBVIOUS
<1>3. \A k \in 1 .. Len(q) : k = 1 \/ (k - 1 \in 1 .. Len(q) - 1 /\ q[k] = Tail(q)[k - 1])
  BY <1>1, <1>2
<1>4. \A k \in 1 .. Len(q) - 1 : k + 1 \in 1 .. Len(q)
  BY <1>1
<1>5. ToSet(Tail(q)) \subseteq ToSet(q)
  BY <1>1, <1>2, <1>4 DEF ToSet
<1>6. Head(q) \in ToSet(q)
  BY <1>1 DEF ToSet
<1>7. ToSet(q) \subseteq {Head(q)} \cup ToSet(Tail(q))
  <2> DEFINE r == Tail(q)
             h == Head(q)
  <2> HIDE DEF r, h
  <2> SUFFICES ASSUME NEW k \in 1 .. Len(q) PROVE q[k] \in {h} \cup ToSet(r)
    BY <1>1 DEF ToSet, r, h
  <2>1. q[1] = h /\ DOMAIN r = 1 .. Len(q) - 1
    BY <1>1, <1>2 DEF r, h
  <2>2. k = 1 \/ (k - 1 \in DOMAIN r /\ q[k] = r[k - 1])
    BY <1>3, <2>1 DEF r
  <2> QED BY <2>1, <2>2 DEF ToSet
<1>8. Head(q) \in S
  BY <1>1
<1> QED BY <1>2, <1>5, <1>6, <1>7, <1>8

\* Two sequences joined.
LEMMA ElementsOfJoined ==
  ASSUME NEW S, NEW p \in Seq(S), NEW q \in Seq(S)
  PROVE  p \o q \in Seq(S) /\ ToSet(p \o q) = ToSet(p) \cup ToSet(q) /\ ToSet(p) \subseteq S
<1>1. /\ Len(p) \in Nat /\ Len(q) \in Nat /\ p \o q \in Seq(S)
      /\ DOMAIN p = 1 .. Len(p) /\ DOMAIN q = 1 .. Len(q) /\ DOMAIN (p \o q) = 1 .. Len(p) + Len(q)
      /\ \A k \in 1 .. Len(p) : (p \o q)[k] = p[k] /\ p[k] \in S
      /\ \A k \in Len(p) + 1 .. Len(p) + Len(q) : (p \o q)[k] = q[k - Len(p)]
  OBVIOUS
<1> DEFINE r == p \o q
<1> HIDE DEF r
<1>2. ToSet(r) \subseteq ToSet(p) \cup ToSet(q)
  <2> SUFFICES ASSUME NEW k \in 1 .. Len(p) + Len(q) PROVE r[k] \in ToSet(p) \cup ToSet(q)
    BY <1>1 DEF ToSet, r
  <2>1. CASE k \in 1 .. Len(p)
    BY <1>1, <2>1 DEF ToSet, r
  <2>2. CASE k \notin 1 .. Len(p)
    <3>1. k \in Len(p) + 1 .. Len(p) + Len(q) /\ k - Len(p) \in 1 .. Len(q)
      BY <1>1, <2>2
    <3> QED BY <1>1, <3>1 DEF ToSet, r
  <2> QED BY <2>1, <2>2
<1>3. ToSet(p) \subseteq ToSet(r) /\ ToSet(p) \subseteq S
  <2>1. \A k \in 1 .. Len(p) : k \in 1 .. Len(p) + Len(q)
    BY <1>1
  <2> QED BY <1>1, <2>1 DEF ToSet, r
<1>4. ToSet(q) \subseteq ToSet(r)
  <2> SUFFICES ASSUME NEW k \in 1 .. Len(q) PROVE q[k] \in ToSet(r)
    BY <1>1 DEF ToSet
  <2>1. k + Len(p) \in Len(p) + 1 .. Len(p) + Len(q) /\ (k + Len(p)) - Len(p) = k /\ k + Len(p) \in 1 .. Len(p) + Len(q)
    BY <1>1
  <2> QED BY <1>1, <2>1 DEF ToSet, r
<1> QED BY <1>1, <1>2, <1>3, <1>4 DEF r

\* An element at the end.
LEMMA ElementsOfAppended ==
  ASSUME NEW S, NEW p \in Seq(S), NEW e \in S
  PROVE  Append(p, e) \in Seq(S) /\ ToSet(Append(p, e)) = ToSet(p) \cup {e}
<1> DEFINE r == <<e>>
<1>1. Append(p, e) = p \o r /\ r \in Seq(S)
  OBVIOUS
<1>2. ToSet(r) = {e}
  BY DEF ToSet
<1> HIDE DEF r
<1>3. p \o r \in Seq(S) /\ ToSet(p \o r) = ToSet(p) \cup {e}
  BY <1>1, <1>2, ElementsOfJoined
<1> QED BY <1>1, <1>3

\* Events for an instance that no command is started on.
NoNext == Seq(Events \ {"next"})
TargetStates == States \ (ControllerStates \cup {"Initial"})

\* What an event for an instance that is not in play leaves alone: the command in
\* play, the FIFOs of the controller, and all other instances.
Kept(d, i, t) ==
  /\ Same(d, t) /\ t.inst[i].state = d.inst[i].state
  /\ t.cDesc = d.cDesc /\ t.cRx = d.cRx /\ t.cThr = d.cThr /\ t.go = d.go /\ t.ctlrOn = d.ctlrOn
  /\ DOMAIN t.queue = Instances /\ t.queue[i] \in NoNext
  /\ \A j \in Instances \ {i} : t.inst[j] = d.inst[j] /\ t.queue[j] = d.queue[j]
Aside(d, i, t) ==
  /\ Same(d, t) /\ t.inst[i].state \notin ControllerStates /\ Clean(t.inst[i])
  /\ t.cDesc = d.cDesc /\ t.cRx = d.cRx /\ t.cThr = d.cThr /\ t.go = d.go /\ t.ctlrOn = d.ctlrOn
  /\ DOMAIN t.queue = Instances /\ t.queue[i] \in NoNext
  /\ \A j \in Instances \ {i} : t.inst[j] = d.inst[j] /\ t.queue[j] = d.queue[j]

\* Two operators in turn, and none.
LEMMA KeptTwice ==
  ASSUME NEW d, NEW b, NEW c, NEW i, Kept(d, i, b), Kept(b, i, c) PROVE Kept(d, i, c)
BY SameTwice DEF Kept

\* No operator at all.
LEMMA KeptItself ==
  ASSUME NEW d, NEW i, Whole(d), DOMAIN d.queue = Instances, d.queue[i] \in NoNext PROVE Kept(d, i, d)
BY Itself DEF Kept

\* Each of the operators, in turn.
LEMMA RaiseKept ==
  ASSUME NEW d, NEW i \in Instances, NEW b, Kept(d, i, b), NEW e \in Events \ {"next"}
  PROVE  Kept(d, i, Raise(b, i, e))
<1>1. Same(b, Raise(b, i, e))
  BY RaiseSame, Itself DEF Kept, Same
<1>2. Append(b.queue[i], e) \in NoNext
  BY DEF Kept, NoNext
<1>3. Kept(b, i, Raise(b, i, e))
  BY <1>1, <1>2 DEF Kept, Raise, Same, Whole, Fields
<1> QED BY <1>3, KeptTwice

\* A descriptor of the target.
LEMMA TargetKept ==
  ASSUME NEW d, NEW i \in Instances, NEW b, Kept(d, i, b), NEW x PROVE Kept(d, i, Target(b, x))
<1>1. Kept(b, i, Target(b, x))
  BY DEF Kept, Target, Same, Whole, Fields
<1> QED BY <1>1, KeptTwice

\* A field of the instance.
LEMMA FieldKept ==
  ASSUME NEW d, NEW i \in Instances, NEW b, Kept(d, i, b), NEW y, DOMAIN y = InstanceFields,
         y.state = b.inst[i].state
  PROVE  Kept(d, i, [b EXCEPT !.inst[i] = y])
<1>1. Kept(b, i, [b EXCEPT !.inst[i] = y])
  BY DEF Kept, Same, Whole, Fields
<1> QED BY <1>1, KeptTwice

\* A byte is refused.
LEMMA NackKept ==
  ASSUME NEW d, NEW i \in Instances, NEW b, Kept(d, i, b) PROVE Kept(d, i, Nack(b, i))
<1> DEFINE t == Target(b, "nack")
           u == [t EXCEPT !.inst[i].nack = TRUE]
<1>1. Kept(d, i, t)
  BY TargetKept
<1> HIDE DEF t
<1>2. Kept(t, i, u)
  BY <1>1 DEF Kept, Same, Whole, Fields
<1> HIDE DEF u
<1>3. Kept(d, i, u)
  BY <1>1, <1>2, KeptTwice
<1> QED BY <1>3 DEF Nack, t, u

\* Bytes are acknowledged, and data go to or come from the application.
LEMMA DataKept ==
  ASSUME NEW d, NEW i \in Instances, NEW b, Kept(d, i, b)
  PROVE  /\ Kept(d, i, FillAcks(b, i)) /\ Kept(d, i, WriteData(b, i)) /\ Kept(d, i, GetData(b, i))
         /\ Kept(d, i, DrainTarget(b, i)) /\ Kept(d, i, GetProtocol(b, i))
<1>1. Kept(b, i, FillAcks(b, i))
  BY DEF Kept, FillAcks, Same, Whole, Fields
<1>2. Kept(b, i, WriteData(b, i))
  BY DEF Kept, WriteData, Same, Whole, Fields
<1>3. Kept(b, i, GetData(b, i))
  BY DEF Kept, GetData, Same, Whole, Fields
<1>4. Kept(b, i, DrainTarget(b, i))
  BY DEF Kept, DrainTarget, Same, Whole, Fields
<1>5. Kept(b, i, GetProtocol(b, i))
  BY DEF Kept, GetProtocol, Same, Whole, Fields
<1> QED BY <1>1, <1>2, <1>3, <1>4, <1>5, KeptTwice

\* The instance goes to another state, or stays in its own.
LEMMA AsideIfKept ==
  ASSUME NEW d, NEW i \in Instances, NEW b, Kept(d, i, b)
  PROVE  /\ d.inst[i].state \in TargetStates => Aside(d, i, b)
         /\ \A x \in TargetStates : Aside(d, i, To(b, i, x))
<1>1. d.inst[i].state \in TargetStates => Aside(d, i, b)
  BY DEF Kept, Aside, Clean, TargetStates
<1>2. ASSUME NEW x \in TargetStates PROVE Aside(d, i, To(b, i, x))
  <2>1. Same(d, To(b, i, x)) /\ x \in States
    BY ToSame DEF Kept, TargetStates
  <2> QED BY <2>1 DEF Kept, Aside, Clean, TargetStates, To, Same, Whole, Fields
<1> QED BY <1>1, <1>2

\* It goes back to Initial.
LEMMA AsideIfBack ==
  ASSUME NEW d, NEW i \in Instances, i # d.inPlay, NEW b, Kept(d, i, b), NEW r
  PROVE  Aside(d, i, Back(b, i)) /\ Aside(d, i, Back(Announce(b, i, r), i))
<1> DEFINE y == [FreshData EXCEPT !.state = b.inst[i].state, !.pec = b.inst[i].pec]
           t == [b EXCEPT !.inst[i] = y]
           u == [t EXCEPT !.active = None, !.tRx = <<>>]
           v == To(u, i, "Initial")
<1>1. DOMAIN y = InstanceFields /\ y.state = b.inst[i].state /\ y.expect = 0 /\ y.descs = 0 /\ y.buf = <<>>
  BY DEF FreshData, InstanceFields
<1> HIDE DEF y
<1>2. Kept(d, i, t) /\ t.inst[i] = y
  BY <1>1, FieldKept DEF Kept, Same, Whole, Fields
<1> HIDE DEF t
<1>3. Kept(t, i, u) /\ u.inst[i] = y
  BY <1>2 DEF Kept, Same, Whole, Fields
<1> HIDE DEF u
<1>4. Kept(d, i, u)
  BY <1>2, <1>3, KeptTwice
<1>5. Same(d, v)
  BY <1>4, ToSame, StatesAre DEF Kept
<1>6. Aside(d, i, v)
  <2>1. v.inst[i].state = "Initial" /\ v.inst[i].expect = 0 /\ v.inst[i].descs = 0 /\ v.inst[i].buf = <<>>
    BY <1>1, <1>3, <1>4 DEF To, Kept, Same, Whole, Fields, InstanceFields
  <2>2. "Initial" \notin ControllerStates
    BY DEF ControllerStates
  <2> QED BY <1>4, <1>5, <2>1, <2>2 DEF Kept, Aside, Clean, To, Same, Whole, Fields
<1>7. i # b.inPlay
  BY DEF Kept, Same
<1>8. Back(b, i) = v
  BY <1>7 DEF Back, ResetAllData, v, u, t, y
<1>9. Announce(b, i, r) = b
  BY <1>7 DEF Announce
<1> QED BY <1>6, <1>8, <1>9

\* An instance that is not in play, to which no command is about to be told.
OutOfPlay(d, i) == i # d.inPlay /\ Whole(d) /\ DOMAIN d.queue = Instances /\ d.queue[i] \in NoNext

\* States and events of a transfer.
LEMMA TargetStatesAre ==
  /\ \A x \in {"AwaitingCommandByte", "AwaitingBlockSize", "AwaitingData", "AwaitingRead",
               "ReadyToSendByte", "CheckIfPecRequired", "AwaitingDone"} : x \in TargetStates
  /\ \A x \in {"tData", "tRead", "pec"} : x \in Events \ {"next"}
BY DEF TargetStates, States, ControllerStates, Events, TargetBits, ControllerBits

\* The handler of Initial.
LEMMA InitialAside ==
  ASSUME NEW d, NEW i \in Instances, OutOfPlay(d, i), NEW e, e # "next"
  PROVE  Aside(d, i, Initial(d, i, e))
<1>1. Kept(d, i, d)
  BY KeptItself DEF OutOfPlay
<1>2. Kept(d, i, Target(d, "data"))
  BY <1>1, TargetKept
<1>3. Aside(d, i, Back(d, i)) /\ Aside(d, i, Back(Target(d, "data"), i)) /\ Aside(d, i, To(d, i, "AwaitingCommandByte"))
  BY <1>1, <1>2, AsideIfBack, AsideIfKept, TargetStatesAre DEF OutOfPlay
<1> QED BY <1>3 DEF Initial

\* The handler of AwaitingCommandByte.
LEMMA AwaitingCommandByteAside ==
  ASSUME NEW d, NEW i \in Instances, OutOfPlay(d, i), d.inst[i].state \in TargetStates, NEW e
  PROVE  Aside(d, i, AwaitingCommandByte(d, i, e))
<1> DEFINE t == GetProtocol(d, i)
           f == [t EXCEPT !.inst[i].expect = Width, !.inst[i].descs = Width + 1,
                          !.tThr = Width, !.tDesc = @ \o Rep("ack", Width + 1)]
<1>1. Kept(d, i, t) /\ Kept(d, i, d)
  BY KeptItself, DataKept DEF OutOfPlay
<1>2. Whole(t)
  BY <1>1 DEF Kept, Same
<1>3. Kept(t, i, f)
  <2> HIDE DEF t
  <2> QED BY <1>1, <1>2 DEF Kept, Same, Fields, Whole
<1> HIDE DEF t, f
<1>4. Aside(d, i, Back(d, i))
  BY <1>1, AsideIfBack DEF OutOfPlay
<1>5. Aside(d, i, To(Target(GetData(t, i), "ack"), i, "AwaitingRead"))
  BY <1>1, AsideIfKept, TargetStatesAre, TargetKept, DataKept
<1>6. Aside(d, i, To(f, i, "AwaitingData")) /\ Aside(d, i, To(Raise(f, i, "tData"), i, "AwaitingData"))
  BY <1>1, <1>3, KeptTwice, AsideIfKept, TargetStatesAre, RaiseKept
<1>7. Aside(d, i, To(Target(t, "ack"), i, "AwaitingBlockSize")) /\ Aside(d, i, To(Nack(t, i), i, "AwaitingDone"))
  BY <1>1, AsideIfKept, TargetStatesAre, TargetKept, NackKept
<1>8. \/ AwaitingCommandByte(d, i, e) = d
      \/ AwaitingCommandByte(d, i, e) = To(Target(GetData(t, i), "ack"), i, "AwaitingRead")
      \/ AwaitingCommandByte(d, i, e) = To(f, i, "AwaitingData")
      \/ AwaitingCommandByte(d, i, e) = To(Raise(f, i, "tData"), i, "AwaitingData")
      \/ AwaitingCommandByte(d, i, e) = To(Target(t, "ack"), i, "AwaitingBlockSize")
      \/ AwaitingCommandByte(d, i, e) = To(Nack(t, i), i, "AwaitingDone")
      \/ AwaitingCommandByte(d, i, e) = Back(d, i)
  BY DEF AwaitingCommandByte, t, f
<1> QED BY <1>1, <1>4, <1>5, <1>6, <1>7, <1>8, AsideIfKept

\* The handler of AwaitingBlockSize.
LEMMA AwaitingBlockSizeAside ==
  ASSUME NEW d, NEW i \in Instances, OutOfPlay(d, i), d.inst[i].state \in TargetStates, NEW e
  PROVE  Aside(d, i, AwaitingBlockSize(d, i, e))
<1> DEFINE n == Head(d.tRx).val
           a == Target(d, "ack")
           t == [a EXCEPT !.tRx = Tail(@), !.inst[i].expect = n, !.inst[i].buf = <<>>,
                          !.tThr = IF n < Trigger THEN 1 ELSE Trigger]
<1>1. Kept(d, i, d)
  BY KeptItself DEF OutOfPlay
<1>2. Kept(d, i, a)
  BY <1>1, TargetKept
<1>3. Kept(d, i, t)
  <2>1. Kept(a, i, t)
    <3> HIDE DEF n, a
    <3> QED BY <1>2 DEF Kept, Same, Fields, Whole
  <2> QED BY <1>2, <2>1, KeptTwice
<1> HIDE DEF n, a, t
<1>4. /\ Aside(d, i, To(GetData(t, i), i, "AwaitingRead"))
      /\ Aside(d, i, To(t, i, "AwaitingData"))
  BY <1>1, <1>2, <1>3, AsideIfKept, TargetStatesAre, DataKept
<1>5. Aside(d, i, Back(d, i))
  BY <1>1, <1>2, <1>3, AsideIfBack DEF OutOfPlay
<1>6. AwaitingBlockSize(d, i, e) \in
        {d,
         To(GetData(t, i), i, "AwaitingRead"),
         To(t, i, "AwaitingData"),
         Back(d, i)}
  BY DEF AwaitingBlockSize, n, a, t
<1> QED BY <1>1, <1>2, <1>3, <1>4, <1>5, <1>6, AsideIfKept

\* The handler of AwaitingData.
LEMMA AwaitingDataAside ==
  ASSUME NEW d, NEW i \in Instances, OutOfPlay(d, i), d.inst[i].state \in TargetStates, NEW e
  PROVE  Aside(d, i, AwaitingData(d, i, e))
<1> DEFINE t == DrainTarget(d, i)
           f == [t EXCEPT !.tThr = 1]
           w == WriteData(f, i)
           o == [t EXCEPT !.tThr = IF Trigger > t.inst[i].expect - Len(t.inst[i].buf) THEN 1 ELSE Trigger]
<1>1. Kept(d, i, d)
  BY KeptItself DEF OutOfPlay
<1>2. Kept(d, i, t)
  BY <1>1, DataKept
<1>3. Kept(d, i, f)
  <2>1. Kept(t, i, f)
    <3> HIDE DEF t, w, o
    <3> QED BY <1>2 DEF Kept, Same, Fields, Whole
  <2> QED BY <1>2, <2>1, KeptTwice
<1>4. Kept(d, i, o)
  <2>1. Kept(t, i, o)
    <3> HIDE DEF t, f, w
    <3> QED BY <1>2 DEF Kept, Same, Fields, Whole
  <2> QED BY <1>2, <2>1, KeptTwice
<1>5. Kept(d, i, w)
  BY <1>1, DataKept, <1>3
<1> HIDE DEF t, f, w, o
<1>6. /\ Kept(d, i, FillAcks(d, i))
      /\ Kept(d, i, Raise(d, i, "tRead"))
      /\ Aside(d, i, To(GetData(f, i), i, "AwaitingRead"))
      /\ Aside(d, i, To(GetData(w, i), i, "AwaitingRead"))
      /\ Aside(d, i, To(f, i, "AwaitingDone"))
  BY <1>1, <1>2, <1>3, <1>4, <1>5, AsideIfKept, TargetStatesAre, RaiseKept, DataKept
<1>7. /\ Aside(d, i, Back(Announce(d, i, "error"), i))
      /\ Aside(d, i, Back(d, i))
  BY <1>1, <1>2, <1>3, <1>4, <1>5, AsideIfBack DEF OutOfPlay
<1>8. AwaitingData(d, i, e) \in
        {FillAcks(d, i),
         Raise(d, i, "tRead"),
         Back(Announce(d, i, "error"), i),
         d,
         o,
         To(GetData(f, i), i, "AwaitingRead"),
         To(GetData(w, i), i, "AwaitingRead"),
         To(f, i, "AwaitingDone"),
         Back(d, i)}
  BY DEF AwaitingData, t, f, w, o
<1> QED BY <1>1, <1>2, <1>3, <1>4, <1>5, <1>6, <1>7, <1>8, AsideIfKept

\* The handler of AwaitingRead.
LEMMA AwaitingReadAside ==
  ASSUME NEW d, NEW i \in Instances, OutOfPlay(d, i), d.inst[i].state \in TargetStates, NEW e
  PROVE  Aside(d, i, AwaitingRead(d, i, e))
<1>1. Kept(d, i, d)
  BY KeptItself DEF OutOfPlay
<1>2. /\ Kept(d, i, FillAcks(d, i))
      /\ Aside(d, i, To(d, i, "ReadyToSendByte"))
  BY <1>1, AsideIfKept, TargetStatesAre, DataKept
<1>3. Aside(d, i, Back(d, i))
  BY <1>1, AsideIfBack DEF OutOfPlay
<1>4. AwaitingRead(d, i, e) \in
        {FillAcks(d, i),
         To(d, i, "ReadyToSendByte"),
         d,
         Back(d, i)}
  BY DEF AwaitingRead
<1> QED BY <1>1, <1>2, <1>3, <1>4, AsideIfKept

\* The handler of ReadyToSendByte.
LEMMA ReadyToSendByteAside ==
  ASSUME NEW d, NEW i \in Instances, OutOfPlay(d, i), d.inst[i].state \in TargetStates, NEW e
  PROVE  Aside(d, i, ReadyToSendByte(d, i, e))
<1> DEFINE n == Least(Room(d.tDesc), d.inst[i].size - d.inst[i].send)
           t == [d EXCEPT !.tDesc = @ \o Rep("data", n), !.inst[i].send = @ + n]
<1>1. Kept(d, i, d)
  BY KeptItself DEF OutOfPlay
<1>2. Kept(d, i, t)
  <2>1. Kept(d, i, t)
    <3> HIDE DEF n
    <3> QED BY <1>1 DEF Kept, Same, Fields, Whole
  <2> QED BY <1>1, <2>1, KeptTwice
<1> HIDE DEF n, t
<1>3. Aside(d, i, To(Raise(t, i, "pec"), i, "CheckIfPecRequired"))
  BY <1>1, <1>2, AsideIfKept, TargetStatesAre, RaiseKept
<1>4. Aside(d, i, Back(d, i))
  BY <1>1, <1>2, AsideIfBack DEF OutOfPlay
<1>5. ReadyToSendByte(d, i, e) \in
        {To(Raise(t, i, "pec"), i, "CheckIfPecRequired"),
         t,
         d,
         Back(d, i)}
  BY DEF ReadyToSendByte, n, t
<1> QED BY <1>1, <1>2, <1>3, <1>4, <1>5, AsideIfKept

\* The handler of CheckIfPecRequired.
LEMMA CheckIfPecRequiredAside ==
  ASSUME NEW d, NEW i \in Instances, OutOfPlay(d, i), d.inst[i].state \in TargetStates, NEW e
  PROVE  Aside(d, i, CheckIfPecRequired(d, i, e))
<1>1. Kept(d, i, d)
  BY KeptItself DEF OutOfPlay
<1>2. /\ Aside(d, i, To(d, i, "AwaitingDone"))
      /\ Kept(d, i, Raise(d, i, "pec"))
      /\ Aside(d, i, To(Target(d, "pec"), i, "AwaitingDone"))
  BY <1>1, AsideIfKept, TargetStatesAre, RaiseKept, TargetKept
<1>3. Aside(d, i, Back(d, i))
  BY <1>1, AsideIfBack DEF OutOfPlay
<1>4. CheckIfPecRequired(d, i, e) \in
        {To(d, i, "AwaitingDone"),
         Raise(d, i, "pec"),
         To(Target(d, "pec"), i, "AwaitingDone"),
         Back(d, i)}
  BY DEF CheckIfPecRequired
<1> QED BY <1>1, <1>2, <1>3, <1>4, AsideIfKept

\* The handler of AwaitingDone.
LEMMA AwaitingDoneAside ==
  ASSUME NEW d, NEW i \in Instances, OutOfPlay(d, i), d.inst[i].state \in TargetStates, NEW e
  PROVE  Aside(d, i, AwaitingDone(d, i, e))
<1> DEFINE a == FillAcks(d, i)
           b == [d EXCEPT !.inst[i].empties = @ + 1]
           c == [a EXCEPT !.inst[i].empties = @ + 1]
           k == Nack(d, i)
           n == [k EXCEPT !.inst[i].empties = @ + 1]
           x == Target(b, "pec")
           y == Target(c, "pec")
           p == [x EXCEPT !.inst[i].pecSent = TRUE]
           q == [y EXCEPT !.inst[i].pecSent = TRUE]
           w == WriteData(d, i)
<1>1. Kept(d, i, d)
  BY KeptItself DEF OutOfPlay
<1>2. Kept(d, i, a) /\ Kept(d, i, k) /\ Kept(d, i, w)
  BY <1>1, DataKept, NackKept, DataKept
<1>3. Kept(d, i, b)
  <2>1. Kept(d, i, b)
    <3> HIDE DEF a, c, k, n, x, y, p, q, w
    <3> QED BY <1>1 DEF Kept, Same, Fields, Whole
  <2> QED BY <1>1, <2>1, KeptTwice
<1>4. Kept(d, i, c)
  <2>1. Kept(a, i, c)
    <3> HIDE DEF a, b, k, n, x, y, p, q, w
    <3> QED BY <1>2 DEF Kept, Same, Fields, Whole
  <2> QED BY <1>2, <2>1, KeptTwice
<1>5. Kept(d, i, n)
  <2>1. Kept(k, i, n)
    <3> HIDE DEF a, b, c, k, x, y, p, q, w
    <3> QED BY <1>2 DEF Kept, Same, Fields, Whole
  <2> QED BY <1>2, <2>1, KeptTwice
<1>6. Kept(d, i, x) /\ Kept(d, i, y)
  BY TargetKept, <1>3, <1>4
<1>7. Kept(d, i, p)
  <2>1. Kept(x, i, p)
    <3> HIDE DEF a, b, c, k, n, x, y, q, w
    <3> QED BY <1>6 DEF Kept, Same, Fields, Whole
  <2> QED BY <1>6, <2>1, KeptTwice
<1>8. Kept(d, i, q)
  <2>1. Kept(y, i, q)
    <3> HIDE DEF a, b, c, k, n, x, y, p, w
    <3> QED BY <1>6 DEF Kept, Same, Fields, Whole
  <2> QED BY <1>6, <2>1, KeptTwice
<1> HIDE DEF a, b, c, k, n, x, y, p, q, w
<1>9. Kept(d, i, DrainTarget(d, i))
  BY <1>1, <1>2, <1>3, <1>4, <1>5, <1>6, <1>7, <1>8, DataKept
<1>10. /\ Aside(d, i, Back(Announce(d, i, "error"), i))
      /\ Aside(d, i, Back(Announce(d, i, "ok"), i))
      /\ Aside(d, i, Back(Announce(w, i, "error"), i))
      /\ Aside(d, i, Back(Announce(w, i, "ok"), i))
      /\ Aside(d, i, Back(d, i))
  BY <1>1, <1>2, <1>3, <1>4, <1>5, <1>6, <1>7, <1>8, AsideIfBack, SMTT(30) DEF OutOfPlay
<1>11. AwaitingDone(d, i, e) \in
        {d,
         n,
         b,
         c,
         p,
         q,
         k,
         Back(Announce(d, i, "error"), i),
         Back(Announce(d, i, "ok"), i),
         Back(Announce(w, i, "error"), i),
         Back(Announce(w, i, "ok"), i),
         DrainTarget(d, i),
         Back(d, i)}
  BY Zenon DEF AwaitingDone, a, b, c, k, n, x, y, p, q, w
<1> QED BY <1>1, <1>2, <1>3, <1>4, <1>5, <1>6, <1>7, <1>8, <1>9, <1>10, <1>11, AsideIfKept

\* Every event but the start of a command.
LEMMA FsmAside ==
  ASSUME NEW d, NEW i \in Instances, OutOfPlay(d, i), d.inst[i].state \notin ControllerStates, NEW e, e # "next"
  PROVE  Aside(d, i, Fsm(d, i, e))
<1>1. CASE e = "cError"
  <2>1. Aside(d, i, Back(Announce(d, i, "error"), i))
    BY KeptItself, AsideIfBack DEF OutOfPlay
  <2> QED BY <1>1, <2>1 DEF Fsm
<1>2. CASE e # "cError" /\ d.inst[i].state = "Initial"
  BY <1>2, InitialAside DEF Fsm
<1>3. CASE e # "cError" /\ d.inst[i].state # "Initial"
  <2>1. d.inst[i].state \in TargetStates
    BY <1>3 DEF OutOfPlay, Whole, TargetStates
  <2>2. Fsm(d, i, e) \in
          {AwaitingCommandByte(d, i, e), AwaitingBlockSize(d, i, e), AwaitingData(d, i, e),
           AwaitingRead(d, i, e), ReadyToSendByte(d, i, e), CheckIfPecRequired(d, i, e), AwaitingDone(d, i, e)}
    BY <1>3, <2>1 DEF Fsm, TargetStates, States, ControllerStates
  <2> QED BY <2>1, <2>2, AwaitingCommandByteAside, AwaitingBlockSizeAside, AwaitingDataAside,
             AwaitingReadAside, ReadyToSendByteAside, CheckIfPecRequiredAside, AwaitingDoneAside
<1> QED BY <1>1, <1>2, <1>3

-----------------------------------------------------------------------------
(* An event for the command in play.                                        *)

\* The types of what a handler works on.
Worked(d, i) ==
  LET x == d.inst[i] IN
  /\ x.expect \in Int /\ x.descs \in Int /\ x.size \in Int /\ x.buf \in Seq(Received)
  /\ d.cRx \in Seq(Received) /\ d.cThr \in Nat \ {0}
LastStates(x) == x.state = "AwaitingDone" \/ (x.state \in {"ReadByte", "ReadDone"} /\ x.descs >= x.expect)

\* The driver d with the event e taken from the queue of the instance in play; ends
\* says that the engine has come to the last descriptor, or has it before it.
Taken(d, i, e, ends) ==
  /\ Whole(d) /\ DOMAIN d.queue = Instances /\ d.queue[i] \in Seq(Events)
  /\ i \in Instances /\ i = d.inPlay /\ d.cDesc \in Seq(Descriptors) /\ Worked(d, i) /\ d.inst[i].pec \in BOOLEAN
  /\ e \in {"next"} \cup ControllerBits /\ "next" \notin ToSet(d.queue[i])
  /\ e = "next" => ToSet(d.queue[i]) \cap ControllerBits = {}
  /\ e = "cDone" => ends
  /\ ends \in BOOLEAN
  /\ ends => LastStates(d.inst[i])

\* What a handler leaves alone while the command goes on.
Frame(d, i, t) ==
  /\ Same(d, t) /\ t.ctlrOn = d.ctlrOn /\ DOMAIN t.queue = Instances
  /\ \A j \in Instances \ {i} : t.inst[j] = d.inst[j] /\ t.queue[j] = d.queue[j]
  /\ t.inst[i].proto = d.inst[i].proto /\ t.inst[i].pec = d.inst[i].pec

\* The descriptors ds that a handler adds.
Added(d, i, t, ends, ds) ==
  LET y == t.inst[i] IN
  /\ ds \in Seq(Descriptors) /\ t.cDesc = d.cDesc \o ds
  /\ \A k, l \in DOMAIN ds : k < l /\ ds[k] \in Ends => ds[l] \notin Starts
  /\ ends => ToSet(ds) \cap Starts = {} /\ t.go = d.go
  /\ y.state \notin ReadStates => ToSet(ds) \cap Fetches = {} /\ t.cRx = d.cRx
  /\ ends \/ ToSet(ds) \cap Ends # {} => LastStates(y)

\* The command goes on.
Onward(d, i, t, ends) ==
  LET x == d.inst[i]
      y == t.inst[i] IN
  /\ Frame(d, i, t) /\ Worked(t, i)
  /\ y.state \in ControllerStates \cup {"AwaitingDone"}
  /\ y.state \notin ReadStates => x.state \notin ReadStates
  /\ \/ t.queue[i] = d.queue[i] /\ y.state \notin {"SendCommand", "SendReadStart"}
     \/ /\ t.queue[i] = Append(d.queue[i], "next") /\ y.state \notin ReadStates \cup {"AwaitingDone"}
        /\ ToSet(d.queue[i]) \cap ControllerBits = {}
  /\ \E ds : Added(d, i, t, ends, ds)
  /\ y.state = "SendCommand" => y.proto \in Reads \cup Calls \cup Writes
  /\ y.state = "WriteByte" => y.proto \in Calls \cup Writes
  /\ y.state \in ReadStates \cup {"SendReadStart"} => y.proto \in Reads \cup Calls \cup {"receive"}
  /\ y.state = "ReadBlockSize" => y.proto \in Blocks

\* It is over, and announced.
Ended(d, i, t, e) ==
  /\ Whole(t) /\ t.txn = d.txn /\ t.inPlay = None /\ t.cDesc = <<>> /\ t.cRx = <<>>
  /\ t.cThr = d.cThr /\ t.go = d.go /\ t.ctlrOn = d.ctlrOn /\ t.queue = d.queue
  /\ \A j \in Instances \ {i} : t.inst[j] = d.inst[j]
  /\ t.inst[i].state = "Initial" /\ Clean(t.inst[i])
  /\ \E r \in Results : t.answers = Append(d.answers, [id |-> d.txn, result |-> r]) /\ (r = "ok" => e = "cDone")

\* What the handlers are made of, each operator by itself and in the two orders
\* in which the handlers use them.
Solid(d, i) == Whole(d) /\ DOMAIN d.queue = Instances /\ i \in Instances
SameData(d, i, t) ==
  /\ t.inst[i].expect = d.inst[i].expect /\ t.inst[i].descs = d.inst[i].descs
  /\ t.inst[i].size = d.inst[i].size /\ t.inst[i].buf = d.inst[i].buf
Moved(d, i, t, state) ==
  /\ Frame(d, i, t) /\ Solid(t, i) /\ SameData(d, i, t) /\ t.inst[i].state = state
  /\ t.queue = d.queue /\ t.cDesc = d.cDesc /\ t.cRx = d.cRx /\ t.cThr = d.cThr
Commanded(d, i, t, ds) ==
  /\ Frame(d, i, t) /\ Solid(t, i) /\ t.inst = d.inst /\ t.queue = d.queue
  /\ t.cDesc = d.cDesc \o ds /\ t.cRx = d.cRx /\ t.cThr = d.cThr
Sent(d, i, t, state, ds) ==
  /\ Frame(d, i, t) /\ SameData(d, i, t) /\ t.inst[i].state = state /\ t.queue[i] = d.queue[i]
  /\ t.cDesc = d.cDesc \o ds /\ t.cRx = d.cRx /\ t.cThr = d.cThr
SentOn(d, i, t, state, ds) ==
  /\ Frame(d, i, t) /\ SameData(d, i, t) /\ t.inst[i].state = state
  /\ t.queue[i] = Append(d.queue[i], "next")
  /\ t.cDesc = d.cDesc \o ds /\ t.cRx = d.cRx /\ t.cThr = d.cThr
LEMMA FrameTwice ==
  ASSUME NEW d, NEW i, NEW b, NEW t, Frame(d, i, b), Frame(b, i, t) PROVE Frame(d, i, t)
BY DEF Frame, Same
LEMMA ToIs ==
  ASSUME NEW d, NEW i, Solid(d, i), NEW state \in States PROVE Moved(d, i, To(d, i, state), state)
<1> DEFINE t == To(d, i, state)
<1>1. DOMAIN d = Fields /\ DOMAIN d.inst = Instances /\ i \in Instances /\ DOMAIN d.inst[i] = InstanceFields
  BY DEF Solid, Whole
<1>2. /\ DOMAIN t = Fields /\ t.queue = d.queue /\ t.cDesc = d.cDesc /\ t.cRx = d.cRx /\ t.cThr = d.cThr
      /\ t.txn = d.txn /\ t.inPlay = d.inPlay /\ t.answers = d.answers /\ t.ctlrOn = d.ctlrOn
  BY <1>1 DEF To, Fields
<1>3. DOMAIN t.inst = Instances /\ \A j \in Instances \ {i} : t.inst[j] = d.inst[j]
  BY <1>1 DEF To, Fields
<1>4. t.inst[i] = [d.inst[i] EXCEPT !.state = state]
  BY <1>1 DEF To, Fields
<1>5. /\ DOMAIN t.inst[i] = InstanceFields /\ t.inst[i].state = state /\ SameData(d, i, t)
      /\ t.inst[i].proto = d.inst[i].proto /\ t.inst[i].pec = d.inst[i].pec
  BY <1>1, <1>4 DEF InstanceFields, SameData
<1> HIDE DEF t
<1>6. Moved(d, i, t, state)
  BY <1>1, <1>2, <1>3, <1>5 DEF Moved, Solid, Frame, Same, Whole
<1> QED BY <1>6 DEF t
LEMMA RaiseIs ==
  ASSUME NEW d, NEW i, Solid(d, i), NEW t, t = Raise(d, i, "next")
  PROVE  /\ Frame(d, i, t) /\ Solid(t, i) /\ t.inst = d.inst /\ t.queue[i] = Append(d.queue[i], "next")
         /\ t.cDesc = d.cDesc /\ t.cRx = d.cRx /\ t.cThr = d.cThr
BY DEF Raise, Solid, Frame, Same, Whole, Fields
LEMMA ControlIs ==
  ASSUME NEW d, NEW i, Solid(d, i), NEW ds
  PROVE  Commanded(d, i, Control(d, ds), ds) /\ Commanded(d, i, Go(Control(d, ds)), ds)
<1>1. Commanded(d, i, Control(d, ds), ds)
  BY DEF Commanded, Control, Solid, Frame, Same, Whole, Fields
<1>2. Commanded(d, i, Go(Control(d, ds)), ds)
  BY DEF Commanded, Go, Control, Solid, Frame, Same, Whole, Fields
<1> QED BY <1>1, <1>2
LEMMA SentIs ==
  ASSUME NEW d, NEW i, Solid(d, i), NEW state \in States, NEW ds
  PROVE  Sent(d, i, To(Go(Control(d, ds)), i, state), state, ds)
<1> DEFINE b == Go(Control(d, ds))
           t == To(b, i, state)
<1>1. Commanded(d, i, b, ds)
  BY ControlIs
<1> HIDE DEF b
<1>2. Moved(b, i, t, state)
  BY <1>1, ToIs DEF Commanded
<1> HIDE DEF t
<1>3. Frame(d, i, t)
  BY <1>1, <1>2, FrameTwice DEF Commanded, Moved
<1>4. Sent(d, i, t, state, ds)
  BY <1>1, <1>2, <1>3 DEF Sent, Commanded, Moved, SameData
<1> QED BY <1>4 DEF b, t
LEMMA SentOnIs ==
  ASSUME NEW d, NEW i, Solid(d, i), NEW state \in States, NEW ds
  PROVE  SentOn(d, i, To(Raise(Control(d, ds), i, "next"), i, state), state, ds)
<1> DEFINE b == Control(d, ds)
           c == Raise(b, i, "next")
           t == To(c, i, state)
<1>1. Commanded(d, i, b, ds)
  BY ControlIs
<1> HIDE DEF b
<1>2. /\ Frame(b, i, c) /\ Solid(c, i) /\ c.inst = b.inst /\ c.queue[i] = Append(b.queue[i], "next")
      /\ c.cDesc = b.cDesc /\ c.cRx = b.cRx /\ c.cThr = b.cThr
  BY <1>1, RaiseIs DEF Commanded
<1> HIDE DEF c
<1>3. Moved(c, i, t, state)
  BY <1>2, ToIs
<1> HIDE DEF t
<1>4. Frame(d, i, t)
  <2>1. Frame(d, i, c)
    BY <1>1, <1>2, FrameTwice DEF Commanded
  <2> QED BY <1>3, <2>1, FrameTwice DEF Moved
<1>5. SentOn(d, i, t, state, ds)
  BY <1>1, <1>2, <1>3, <1>4 DEF SentOn, Commanded, Moved, SameData
<1> QED BY <1>5 DEF b, c, t
LEMMA TakenSolid ==
  ASSUME NEW d, NEW i, NEW e, NEW ends, Taken(d, i, e, ends) PROVE Solid(d, i)
BY DEF Taken, Solid

\* Descriptors of one kind.
LEMMA RepIs ==
  ASSUME NEW x, NEW n \in Int
  PROVE  /\ Rep(x, n) \in Seq({x}) /\ Len(Rep(x, n)) = IF n > 0 THEN n ELSE 0
         /\ DOMAIN Rep(x, n) = 1 .. n /\ \A k \in DOMAIN Rep(x, n) : Rep(x, n)[k] = x
         /\ ToSet(Rep(x, n)) \subseteq {x}
<1>1. CASE n > 0
  BY <1>1 DEF Rep, ToSet
<1>2. CASE ~ (n > 0)
  <2>1. 1 .. n = {} /\ 1 .. n = 1 .. 0
    BY <1>2
  <2>2. Rep(x, n) = [k \in 1 .. 0 |-> x]
    BY <2>1 DEF Rep
  <2> QED BY <1>2, <2>1, <2>2 DEF ToSet
<1> QED BY <1>1, <1>2

\* A command ends.
LEMMA BackEnds ==
  ASSUME NEW d, NEW i \in Instances, Whole(d), i = d.inPlay, DOMAIN d.queue = Instances,
         NEW r \in Results, NEW e, r = "ok" => e = "cDone", NEW g
  PROVE  Ended(d, i, Back(Announce(d, i, r), i), e) /\ Ended(d, i, Back(Announce([d EXCEPT !.given = g], i, r), i), e)
<1>1. ASSUME NEW b, Whole(b), b.txn = d.txn, b.inPlay = d.inPlay, b.answers = d.answers, b.cThr = d.cThr,
             b.go = d.go, b.ctlrOn = d.ctlrOn, b.queue = d.queue, b.inst = d.inst
      PROVE  Ended(d, i, Back(Announce(b, i, r), i), e)
  <2> DEFINE a == [b EXCEPT !.answers = Append(@, [id |-> b.txn, result |-> r])]
             y == [FreshData EXCEPT !.state = a.inst[i].state, !.pec = a.inst[i].pec]
             u == [a EXCEPT !.inst[i] = y]
             v == [u EXCEPT !.inPlay = None, !.cRx = <<>>, !.cDesc = <<>>]
             w == To(v, i, "Initial")
  <2>1. a = Announce(b, i, r) /\ a.inPlay = i /\ DOMAIN a = Fields
    BY <1>1 DEF Announce, Whole, Fields
  <2>2. w = Back(Announce(b, i, r), i)
    BY <2>1 DEF Back, ResetAllData
  <2>3. /\ Whole(a) /\ a.txn = d.txn /\ a.cThr = d.cThr /\ a.go = d.go /\ a.ctlrOn = d.ctlrOn /\ a.queue = d.queue
        /\ a.inst = d.inst /\ a.answers = Append(d.answers, [id |-> d.txn, result |-> r])
    BY <1>1 DEF Whole, Fields
  <2>4. DOMAIN y = InstanceFields /\ y.state = a.inst[i].state /\ y.expect = 0 /\ y.descs = 0 /\ y.buf = <<>>
    BY DEF FreshData, InstanceFields
  <2> HIDE DEF a, y
  <2>5. /\ Whole(w) /\ w.txn = a.txn /\ w.inPlay = None /\ w.cDesc = <<>> /\ w.cRx = <<>> /\ w.cThr = a.cThr
        /\ w.go = a.go /\ w.ctlrOn = a.ctlrOn /\ w.queue = a.queue /\ w.answers = a.answers
        /\ \A j \in Instances \ {i} : w.inst[j] = a.inst[j]
        /\ w.inst[i].state = "Initial" /\ w.inst[i].expect = 0 /\ w.inst[i].descs = 0 /\ w.inst[i].buf = <<>>
    BY <2>3, <2>4, StatesAre DEF To, Whole, Fields, InstanceFields
  <2> HIDE DEF w
  <2> QED BY <2>2, <2>3, <2>5 DEF Ended, Clean
<1> DEFINE c == [d EXCEPT !.given = g]
<1>2. Whole(c) /\ c.txn = d.txn /\ c.inPlay = d.inPlay /\ c.answers = d.answers /\ c.cThr = d.cThr /\ 
             c.go = d.go /\ c.ctlrOn = d.ctlrOn /\ c.queue = d.queue /\ c.inst = d.inst
  BY DEF Whole, Fields
<1> HIDE DEF c
<1>3. Ended(d, i, Back(Announce(c, i, r), i), e)
  BY <1>1, <1>2
<1>4. Ended(d, i, Back(Announce(d, i, r), i), e)
  BY <1>1
<1> QED BY <1>3, <1>4 DEF c

\* An event that changes nothing.
LEMMA StaysOnward ==
  ASSUME NEW d, NEW i, NEW e, NEW ends, Taken(d, i, e, ends),
         d.inst[i].state \in ReadStates \cup {"WriteByte", "AwaitingDone"},
         d.inst[i].state = "WriteByte" => d.inst[i].proto \in Calls \cup Writes,
         d.inst[i].state \in ReadStates => d.inst[i].proto \in Reads \cup Calls \cup {"receive"},
         d.inst[i].state = "ReadBlockSize" => d.inst[i].proto \in Blocks
  PROVE  Onward(d, i, d, ends)
<1>1. Frame(d, i, d)
  BY Itself DEF Taken, Frame
<1>2. <<>> \in Seq(Descriptors) /\ d.cDesc \o <<>> = d.cDesc /\ ToSet(<<>>) = {} /\ DOMAIN <<>> = {}
  BY DEF Taken, ToSet
<1>3. Added(d, i, d, ends, <<>>)
  BY <1>2 DEF Added, Taken
<1>4. d.inst[i].state \in ControllerStates \cup {"AwaitingDone"} /\ d.inst[i].state \notin {"SendCommand", "SendReadStart"}
  BY DEF ControllerStates, ReadStates
<1> QED BY <1>1, <1>3, <1>4 DEF Onward, Taken, ReadStates

\* What a handler adds to the descriptors, if each of them is written out.
LEMMA AddedOne ==
  ASSUME NEW x \in Descriptors
  PROVE  /\ <<x>> \in Seq(Descriptors) /\ ToSet(<<x>>) = {x}
         /\ \A k, l \in DOMAIN <<x>> : k < l => FALSE
<1>1. DOMAIN <<x>> = {1} /\ <<x>>[1] = x
  OBVIOUS
<1> QED BY <1>1 DEF ToSet

\* The names of descriptors, bits and states are different ones.
LEMMA DescriptorsAre ==
  /\ \A x \in {"start", "readStart", "quick", "stopWrite", "pecWrite", "readStop", "readPec", "readByte", "byte"} : x \in Descriptors
  /\ {"SendCommand", "WriteByte", "SendReadStart", "ReadBlockSize", "ReadByte", "ReadDone"} = ControllerStates
  /\ "AwaitingDone" \notin ControllerStates /\ "Initial" \notin ControllerStates /\ ReadStates \subseteq ControllerStates
  /\ "next" \in Events /\ "next" \notin ControllerBits /\ "next" \notin TargetBits /\ "pec" \notin ControllerBits
BY DEF Descriptors, Starts, Ends, Fetches, ControllerStates, ReadStates, Events, TargetBits, ControllerBits

\* The first event of a command.
LEMMA InitialOnward ==
  ASSUME NEW d, NEW i, NEW ends, Taken(d, i, "next", ends), d.inst[i].state = "Initial", d.cRx = <<>>,
         d.inst[i].proto \in OwnProtos
  PROVE  Onward(d, i, Initial(d, i, "next"), ends)
<1> DEFINE p == d.inst[i].proto
           t == Initial(d, i, "next")
<1> SUFFICES Onward(d, i, t, ends)
  OBVIOUS
<1>1. ~ ends
  BY DEF Taken, LastStates
<1>2. CASE p = "quick"
  <2>1. t = To(Go(Control(d, <<"quick">>)), i, "AwaitingDone")
    BY <1>2 DEF Initial
  <2>2. /\ Frame(d, i, t) /\ t.inst[i].state = "AwaitingDone" /\ t.queue[i] = d.queue[i] /\ t.cDesc = d.cDesc \o <<"quick">>
        /\ t.cRx = d.cRx /\ t.cThr = d.cThr /\ t.inst[i].expect = d.inst[i].expect /\ t.inst[i].descs = d.inst[i].descs
        /\ t.inst[i].size = d.inst[i].size /\ t.inst[i].buf = d.inst[i].buf
    <3> HIDE DEF t
    <3>1. Sent(d, i, t, "AwaitingDone", <<"quick">>)
      BY <2>1, StatesAre, TakenSolid, SentIs
    <3> QED BY <3>1 DEF Sent, SameData
  <2> HIDE DEF t
  <2>3. <<"quick">> \in Seq(Descriptors) /\ ToSet(<<"quick">>) = {"quick"} /\ \A k, l \in DOMAIN <<"quick">> : k < l => FALSE
    BY AddedOne, DescriptorsAre
  <2>4. Added(d, i, t, ends, <<"quick">>)
    BY <1>1, <2>2, <2>3 DEF Added, ReadStates, Starts, Ends, Fetches, LastStates
  <2>5. Worked(t, i)
    BY <2>2 DEF Worked, Taken
  <2> QED BY <2>2, <2>4, <2>5 DEF Onward, ReadStates
<1>3. CASE p = "receive"
  <2> DEFINE b == [d EXCEPT !.inst[i].expect = 1]
  <2>1. t = To(Raise(b, i, "next"), i, "SendReadStart")
    BY <1>3 DEF Initial
  <2>2. /\ Frame(d, i, t) /\ t.inst[i].state = "SendReadStart" /\ t.queue[i] = Append(d.queue[i], "next") /\ t.cDesc = d.cDesc
        /\ t.cRx = d.cRx /\ t.cThr = d.cThr /\ t.inst[i].expect = 1 /\ t.inst[i].descs = d.inst[i].descs
        /\ t.inst[i].size = d.inst[i].size /\ t.inst[i].buf = d.inst[i].buf
    <3> HIDE DEF t
    <3> QED BY <2>1, StatesAre DEF To, Raise, Frame, Same, Whole, Fields, InstanceFields, Taken
  <2> HIDE DEF t
  <2>3. <<>> \in Seq(Descriptors) /\ d.cDesc \o <<>> = d.cDesc /\ ToSet(<<>>) = {} /\ DOMAIN <<>> = {}
    BY DEF Taken, ToSet
  <2>4. Added(d, i, t, ends, <<>>)
    BY <1>1, <2>2, <2>3 DEF Added
  <2>5. Worked(t, i)
    BY <2>2 DEF Worked, Taken
  <2>6. t.inst[i].proto = "receive"
    BY <1>3, <2>2 DEF Frame
  <2> QED BY <2>2, <2>4, <2>5, <2>6, DescriptorsAre DEF Onward, ReadStates, Taken
<1>4. CASE p \notin {"quick", "receive"}
  <2>1. t = To(Raise(Control(d, <<"start">>), i, "next"), i, "SendCommand")
    BY <1>4 DEF Initial
  <2>2. /\ Frame(d, i, t) /\ t.inst[i].state = "SendCommand" /\ t.queue[i] = Append(d.queue[i], "next")
        /\ t.cDesc = d.cDesc \o <<"start">>
        /\ t.cRx = d.cRx /\ t.cThr = d.cThr /\ t.inst[i].expect = d.inst[i].expect /\ t.inst[i].descs = d.inst[i].descs
        /\ t.inst[i].size = d.inst[i].size /\ t.inst[i].buf = d.inst[i].buf
    <3> HIDE DEF t
    <3>1. SentOn(d, i, t, "SendCommand", <<"start">>)
      BY <2>1, StatesAre, TakenSolid, SentOnIs
    <3> QED BY <3>1 DEF SentOn, SameData
  <2> HIDE DEF t
  <2>3. <<"start">> \in Seq(Descriptors) /\ ToSet(<<"start">>) = {"start"} /\ \A k, l \in DOMAIN <<"start">> : k < l => FALSE
    BY AddedOne, DescriptorsAre
  <2>4. Added(d, i, t, ends, <<"start">>)
    BY <1>1, <2>2, <2>3 DEF Added, Starts, Ends, Fetches
  <2>5. Worked(t, i)
    BY <2>2 DEF Worked, Taken
  <2>6. t.inst[i].proto \in Reads \cup Calls \cup Writes
    BY <1>4, <2>2, SmbusAssumption DEF Frame
  <2> QED BY <2>2, <2>4, <2>5, <2>6, DescriptorsAre DEF Onward, ReadStates, Taken
<1> QED BY <1>2, <1>3, <1>4

\* The command byte.
LEMMA SendCommandOnward ==
  ASSUME NEW d, NEW i, NEW ends, Taken(d, i, "next", ends), d.inst[i].state = "SendCommand", d.cRx = <<>>,
         d.inst[i].proto \in Reads \cup Calls \cup Writes
  PROVE  Onward(d, i, SendCommand(d, i, "next"), ends)
<1> DEFINE p == d.inst[i].proto
           t == SendCommand(d, i, "next")
           Result(x, ds) ==
             /\ Frame(d, i, t) /\ t.inst[i].state = x /\ t.queue[i] = Append(d.queue[i], "next")
             /\ t.cDesc = d.cDesc \o ds
             /\ t.cRx = d.cRx /\ t.cThr = d.cThr /\ t.inst[i].expect = d.inst[i].expect /\ t.inst[i].descs = d.inst[i].descs
             /\ t.inst[i].size = d.inst[i].size /\ t.inst[i].buf = d.inst[i].buf
<1> SUFFICES Onward(d, i, t, ends)
  OBVIOUS
<1>1. ~ ends
  BY DEF Taken, LastStates
<1>2. \E x \in {"SendReadStart", "WriteByte"}, ds \in {<<>>, <<"byte">>} :
        /\ Result(x, ds) /\ (x = "SendReadStart" => p \in Reads) /\ (x = "WriteByte" => p \in Calls \cup Writes)
  <2>1. CASE p \in Reads
    <3>0. p \in Reads /\ p # "send" /\ p \notin Calls \cup (Writes \ {"send"}) /\ p \in Reads \cup Calls \cup Writes
      BY <2>1 DEF Reads, Calls, Writes
    <3>1. t = To(Raise(Control(d, <<"byte">>), i, "next"), i, "SendReadStart")
      BY <3>0 DEF SendCommand
    <3>2. Result("SendReadStart", <<"byte">>)
      <4> HIDE DEF t
      <4>1. SentOn(d, i, t, "SendReadStart", <<"byte">>)
        BY <3>1, StatesAre, TakenSolid, SentOnIs
      <4> QED BY <4>1 DEF SentOn, SameData
    <3> QED BY <2>1, <3>2
  <2>2. CASE p \in Calls \cup (Writes \ {"send"})
    <3>1. p \notin Reads /\ p # "send" /\ p \in Calls \cup (Writes \ {"send"}) /\ p \in Calls \cup Writes
      BY <2>2 DEF Reads, Calls, Writes
    <3>0. t = To(Raise(Control(d, <<"byte">>), i, "next"), i, "WriteByte")
      BY <3>1 DEF SendCommand
    <3>2. Result("WriteByte", <<"byte">>)
      <4> HIDE DEF t
      <4>1. SentOn(d, i, t, "WriteByte", <<"byte">>)
        BY <3>0, StatesAre, TakenSolid, SentOnIs
      <4> QED BY <4>1 DEF SentOn, SameData
    <3> QED BY <2>2, <3>2
  <2>3. CASE p = "send"
    <3>1. t = To(Raise(d, i, "next"), i, "WriteByte")
      BY <2>3 DEF SendCommand, Reads, Calls, Writes
    <3>2. d.cDesc \o <<>> = d.cDesc
      BY DEF Taken
    <3>3. Result("WriteByte", <<>>)
      <4> HIDE DEF t
      <4> QED BY <3>1, <3>2, StatesAre DEF To, Raise, Frame, Same, Whole, Fields, InstanceFields, Taken
    <3>4. p \in Writes
      BY <2>3 DEF Writes
    <3> QED BY <3>3, <3>4
  <2> QED BY <2>1, <2>2, <2>3
<1> HIDE DEF t
<1>3. PICK x \in {"SendReadStart", "WriteByte"}, ds \in {<<>>, <<"byte">>} :
        /\ Result(x, ds) /\ (x = "SendReadStart" => p \in Reads) /\ (x = "WriteByte" => p \in Calls \cup Writes)
  BY <1>2
<1>4. ds \in Seq(Descriptors) /\ ToSet(ds) \subseteq {"byte"} /\ \A k, l \in DOMAIN ds : k < l => FALSE
  <2>1. CASE ds = <<>>
    BY <2>1 DEF ToSet
  <2>2. CASE ds = <<"byte">>
    BY <2>2, AddedOne, DescriptorsAre
  <2> QED BY <2>1, <2>2
<1>5. Added(d, i, t, ends, ds)
  BY <1>1, <1>3, <1>4 DEF Added, Starts, Ends, Fetches
<1>6. Worked(t, i) /\ t.inst[i].proto = p
  BY <1>3 DEF Worked, Taken, Frame
<1> QED BY <1>3, <1>5, <1>6, DescriptorsAre DEF Onward, ReadStates, Taken

\* A byte that is written, or what follows it.
LEMMA WriteByteOnward ==
  ASSUME NEW d, NEW i, NEW e \in {"next", "cEmpty"}, NEW ends, Taken(d, i, e, ends),
         d.inst[i].state = "WriteByte", d.cRx = <<>>, d.inst[i].proto \in Calls \cup Writes,
         ToSet(d.queue[i]) \cap ControllerBits = {}
  PROVE  Onward(d, i, WriteByte(d, i, e), ends)
<1> DEFINE x == d.inst[i]
           t == WriteByte(d, i, e)
           n == Least(Room(d.cDesc), x.size - 1)
           Result(state, ds) ==
             /\ Frame(d, i, t) /\ t.inst[i].state = state
             /\ IF state = "SendReadStart" THEN t.queue[i] = Append(d.queue[i], "next") ELSE t.queue[i] = d.queue[i]
             /\ t.cDesc = d.cDesc \o ds
             /\ t.cRx = d.cRx /\ t.cThr = d.cThr /\ t.inst[i].expect = x.expect /\ t.inst[i].descs = x.descs
             /\ t.inst[i].size \in Int /\ t.inst[i].buf = x.buf
           Allowed(state, ds) ==
             \/ state = "WriteByte" /\ ds = Rep("byte", n)
             \/ state = "WriteByte" /\ ds = <<>>
             \/ state = "SendReadStart" /\ ds = <<"byte">> /\ x.proto \in Calls
             \/ state = "AwaitingDone" /\ ds \in {<<"byte", "pecWrite">>, <<"stopWrite">>}
<1> SUFFICES Onward(d, i, t, ends)
  OBVIOUS
<1>1. ~ ends /\ x.size \in Int /\ n \in Int
  BY SmbusAssumption DEF Taken, LastStates, Least, Room, Worked
<1>2. d.cDesc \o <<>> = d.cDesc
  BY DEF Taken
<1>3. \E state, ds : Result(state, ds) /\ Allowed(state, ds)
  <2>1. CASE x.size > 1
    <3> DEFINE b == Go(Control(d, Rep("byte", n)))
    <3>1. t = [b EXCEPT !.inst[i].size = @ - n, !.inst[i].send = @ + n]
      BY <2>1 DEF WriteByte
    <3> HIDE DEF t, n
    <3>2. /\ Frame(d, i, b) /\ b.inst = d.inst /\ b.queue = d.queue
          /\ b.cDesc = d.cDesc \o Rep("byte", n) /\ b.cRx = d.cRx /\ b.cThr = d.cThr
      BY DEF Go, Control, Frame, Same, Whole, Fields, Taken
    <3>3. DOMAIN b = Fields /\ DOMAIN b.inst = Instances /\ DOMAIN b.inst[i] = InstanceFields /\ i \in Instances
      BY <3>2 DEF Frame, Same, Whole, Taken
    <3>4. b.inst[i].size \in Int /\ b.inst[i].size - n \in Int
      BY <1>1, <3>2
    <3> HIDE DEF b
    <3>5. /\ DOMAIN t = Fields /\ DOMAIN t.inst = Instances /\ DOMAIN t.inst[i] = InstanceFields
          /\ t.txn = b.txn /\ t.inPlay = b.inPlay /\ t.answers = b.answers /\ t.ctlrOn = b.ctlrOn
          /\ t.queue = b.queue /\ t.cDesc = b.cDesc /\ t.cRx = b.cRx /\ t.cThr = b.cThr
          /\ \A j \in Instances \ {i} : t.inst[j] = b.inst[j]
      BY <3>1, <3>3 DEF Fields, InstanceFields
    <3>6. /\ t.inst[i].state = b.inst[i].state /\ t.inst[i].expect = b.inst[i].expect
          /\ t.inst[i].descs = b.inst[i].descs /\ t.inst[i].buf = b.inst[i].buf
          /\ t.inst[i].proto = b.inst[i].proto /\ t.inst[i].pec = b.inst[i].pec
          /\ t.inst[i].size = b.inst[i].size - n
      BY <3>1, <3>3 DEF Fields, InstanceFields
    <3>7. Frame(d, i, t)
      BY <3>2, <3>5, <3>6 DEF Frame, Same, Whole
    <3>8. x.state = "WriteByte"
      OBVIOUS
    <3>9. t.inst[i].size \in Int /\ t.inst[i].state = "WriteByte"
      BY <3>2, <3>4, <3>6, <3>8
    <3>10. t.inst[i].expect = x.expect /\ t.inst[i].descs = x.descs /\ t.inst[i].buf = x.buf
      BY <3>2, <3>6
    <3>11. t.queue[i] = d.queue[i] /\ t.cDesc = d.cDesc \o Rep("byte", n) /\ t.cRx = d.cRx /\ t.cThr = d.cThr
      BY <3>2, <3>5
    <3> QED BY <3>7, <3>9, <3>10, <3>11
  <2>2. CASE ~ (x.size > 1) /\ t = To(Raise(Control(d, <<"byte">>), i, "next"), i, "SendReadStart") /\ x.proto \in Calls
    <3> HIDE DEF t, n
    <3>1. Result("SendReadStart", <<"byte">>)
      <4>1. SentOn(d, i, t, "SendReadStart", <<"byte">>)
        BY <2>2, StatesAre, TakenSolid, SentOnIs
      <4> QED BY <1>1, <4>1 DEF SentOn, SameData
    <3> QED BY <2>2, <3>1
  <2>3. CASE \E ds \in {<<"byte", "pecWrite">>, <<"stopWrite">>} : t = To(Go(Control(d, ds)), i, "AwaitingDone")
    <3> HIDE DEF t, n
    <3>1. PICK ds \in {<<"byte", "pecWrite">>, <<"stopWrite">>} : t = To(Go(Control(d, ds)), i, "AwaitingDone")
      BY <2>3
    <3>2. Result("AwaitingDone", ds)
      <4>1. Sent(d, i, t, "AwaitingDone", ds)
        BY <3>1, StatesAre, TakenSolid, SentIs
      <4> QED BY <1>1, <4>1 DEF Sent, SameData
    <3> QED BY <3>1, <3>2
  <2>4. CASE t = Go(d) \/ t = d
    <3> HIDE DEF t, n
    <3>1. Result("WriteByte", <<>>)
      BY <1>1, <1>2, <2>4 DEF Go, Frame, Same, Whole, Fields, InstanceFields, Taken
    <3> QED BY <3>1
  <2>5. \/ x.size > 1
        \/ ~ (x.size > 1) /\ t = To(Raise(Control(d, <<"byte">>), i, "next"), i, "SendReadStart") /\ x.proto \in Calls
        \/ t = To(Go(Control(d, <<"byte", "pecWrite">>)), i, "AwaitingDone")
        \/ t = To(Go(Control(d, <<"stopWrite">>)), i, "AwaitingDone")
        \/ t = Go(d) \/ t = d
    BY DEF WriteByte
  <2> QED BY <2>1, <2>2, <2>3, <2>4, <2>5
<1> HIDE DEF t, n
<1>4. PICK state, ds : Result(state, ds) /\ Allowed(state, ds)
  BY <1>3
<1>5. Added(d, i, t, ends, ds)
  <2>1. CASE state = "WriteByte" /\ ds = Rep("byte", n)
    <3>1. /\ Rep("byte", n) \in Seq({"byte"}) /\ ToSet(Rep("byte", n)) \subseteq {"byte"}
          /\ \A k \in DOMAIN Rep("byte", n) : Rep("byte", n)[k] = "byte"
      BY <1>1, RepIs
    <3>2. ds \in Seq(Descriptors)
      BY <2>1, <3>1, DescriptorsAre
    <3> QED BY <1>1, <1>4, <2>1, <3>1, <3>2 DEF Added, Ends, Starts, Fetches
  <2>2. CASE state = "WriteByte" /\ ds = <<>>
    <3>1. <<>> \in Seq(Descriptors) /\ ToSet(<<>>) = {} /\ DOMAIN <<>> = {}
      BY DEF ToSet
    <3> QED BY <1>1, <1>4, <2>2, <3>1 DEF Added
  <2>3. CASE state = "SendReadStart" /\ ds = <<"byte">>
    <3>1. ds \in Seq(Descriptors) /\ ToSet(ds) = {"byte"} /\ \A k, l \in DOMAIN ds : k < l => FALSE
      BY <2>3, AddedOne, DescriptorsAre
    <3> QED BY <1>1, <1>4, <2>3, <3>1 DEF Added, Ends, Starts, Fetches
  <2>4. CASE state = "AwaitingDone" /\ ds \in {<<"byte", "pecWrite">>, <<"stopWrite">>}
    <3>1. ds \in Seq(Descriptors) /\ ToSet(ds) \subseteq {"byte", "pecWrite", "stopWrite"}
      <4>1. CASE ds = <<"byte", "pecWrite">>
        <5>1. DOMAIN ds = {1, 2} /\ ds[1] = "byte" /\ ds[2] = "pecWrite" /\ ds \in Seq({"byte", "pecWrite"})
          BY <4>1
        <5>2. ds \in Seq(Descriptors)
          BY <5>1, DescriptorsAre
        <5> QED BY <5>1, <5>2 DEF ToSet
      <4>2. CASE ds = <<"stopWrite">>
        BY <4>2, AddedOne, DescriptorsAre
      <4> QED BY <2>4, <4>1, <4>2
    <3>2. \A k \in DOMAIN ds : ds[k] \notin Starts
      BY <2>4 DEF Starts
    <3> QED BY <1>1, <1>4, <2>4, <3>1, <3>2 DEF Added, Starts, Fetches, LastStates
  <2> QED BY <1>4, <2>1, <2>2, <2>3, <2>4
<1>6. Worked(t, i) /\ t.inst[i].proto = x.proto
  BY <1>4 DEF Worked, Taken, Frame
<1>7. state \in {"WriteByte", "SendReadStart", "AwaitingDone"} /\ (state = "SendReadStart" => x.proto \in Calls)
  BY <1>4
<1> HIDE DEF Allowed
<1> QED BY <1>4, <1>5, <1>6, <1>7, DescriptorsAre DEF Onward, ReadStates

\* The address is sent again, and data are read.
LEMMA SendReadStartOnward ==
  ASSUME NEW d, NEW i, NEW ends, Taken(d, i, "next", ends), d.inst[i].state = "SendReadStart",
         d.inst[i].proto \in Reads \cup Calls \cup {"receive"}
  PROVE  Onward(d, i, SendReadStart(d, i, "next"), ends)
<1> DEFINE x == d.inst[i]
           t == SendReadStart(d, i, "next")
           n == IF x.proto = "receive" THEN 1 ELSE Width
           xs == IF x.pec THEN Rep("readByte", n) \o <<"readPec">> ELSE Rep("readByte", n - 1) \o <<"readStop">>
<1> SUFFICES Onward(d, i, t, ends)
  OBVIOUS
<1>1. ~ ends /\ n \in Nat \ {0}
  BY SmbusAssumption DEF Taken, LastStates
<1>2. CASE x.proto \in Blocks
  <2> DEFINE b == [d EXCEPT !.inst[i].descs = 0]
  <2>1. t = To(Go(Control(b, <<"readStart">>)), i, "ReadBlockSize")
    BY <1>2 DEF SendReadStart, Blocks
  <2>2. /\ Frame(d, i, t) /\ t.inst[i].state = "ReadBlockSize" /\ t.queue[i] = d.queue[i]
        /\ t.cDesc = d.cDesc \o <<"readStart">>
        /\ t.cRx = d.cRx /\ t.cThr = d.cThr /\ t.inst[i].expect = x.expect /\ t.inst[i].descs = 0
        /\ t.inst[i].size = x.size /\ t.inst[i].buf = x.buf
    <3>1. /\ Frame(d, i, b) /\ b.queue = d.queue /\ b.cDesc = d.cDesc /\ b.cRx = d.cRx /\ b.cThr = d.cThr
          /\ b.inst[i].expect = x.expect /\ b.inst[i].descs = 0 /\ b.inst[i].size = x.size /\ b.inst[i].buf = x.buf
      BY DEF Frame, Same, Whole, Fields, InstanceFields, Taken
    <3> HIDE DEF t, b
    <3>2. Solid(b, i)
      BY <3>1 DEF Solid, Frame, Same, Taken
    <3>3. Sent(b, i, t, "ReadBlockSize", <<"readStart">>)
      BY <2>1, <3>2, StatesAre, SentIs
    <3>4. Frame(d, i, t)
      BY <3>1, <3>3, FrameTwice DEF Sent
    <3> QED BY <3>1, <3>3, <3>4 DEF Sent, SameData
  <2> HIDE DEF t
  <2>3. <<"readStart">> \in Seq(Descriptors) /\ ToSet(<<"readStart">>) = {"readStart"} /\ \A k, l \in DOMAIN <<"readStart">> : k < l => FALSE
    BY AddedOne, DescriptorsAre
  <2>4. Added(d, i, t, ends, <<"readStart">>)
    BY <1>1, <2>2, <2>3 DEF Added, Ends, ReadStates
  <2>5. Worked(t, i) /\ t.inst[i].proto = x.proto
    BY <2>2 DEF Worked, Taken, Frame
  <2> QED BY <1>2, <2>2, <2>4, <2>5, DescriptorsAre DEF Onward, ReadStates
<1>3. CASE x.proto \notin Blocks
  <2> DEFINE b == [d EXCEPT !.inst[i].expect = n, !.inst[i].descs = n, !.cThr = n]
             ds == <<"readStart">> \o xs
  <2>1. t = To(Go(Control(b, ds)), i, "ReadByte")
    <3>1. x.proto \in {"read", "call", "receive"} /\ x.proto \notin Blocks
      BY <1>3 DEF Blocks, Reads, Calls
    <3> QED BY <3>1 DEF SendReadStart
  <2>2. /\ Frame(d, i, t) /\ t.inst[i].state = "ReadByte" /\ t.queue[i] = d.queue[i]
        /\ t.cDesc = d.cDesc \o ds
        /\ t.cRx = d.cRx /\ t.cThr = n /\ t.inst[i].expect = n /\ t.inst[i].descs = n
        /\ t.inst[i].size = x.size /\ t.inst[i].buf = x.buf
    <3> HIDE DEF t, ds, n
    <3>1. /\ Frame(d, i, b) /\ b.queue = d.queue /\ b.cDesc = d.cDesc /\ b.cRx = d.cRx /\ b.cThr = n
          /\ b.inst[i].expect = n /\ b.inst[i].descs = n /\ b.inst[i].size = x.size /\ b.inst[i].buf = x.buf
      BY DEF Frame, Same, Whole, Fields, InstanceFields, Taken
    <3> HIDE DEF b
    <3>2. Solid(b, i)
      BY <3>1 DEF Solid, Frame, Same, Taken
    <3>3. Sent(b, i, t, "ReadByte", ds)
      BY <2>1, <3>2, StatesAre, SentIs
    <3>4. Frame(d, i, t)
      BY <3>1, <3>3, FrameTwice DEF Sent
    <3> QED BY <3>1, <3>3, <3>4 DEF Sent, SameData
  <2> HIDE DEF t
  <2>3. xs \in Seq(Descriptors) /\ \A k \in DOMAIN xs : xs[k] \notin Starts
    <3>1. ASSUME NEW m \in Int, NEW y \in {"readPec", "readStop"}
          PROVE  LET ys == Rep("readByte", m) \o <<y>> IN ys \in Seq(Descriptors) /\ \A k \in DOMAIN ys : ys[k] \notin Starts
      <4> DEFINE r == Rep("readByte", m)
      <4>1. r \in Seq({"readByte"})
        BY RepIs
      <4> HIDE DEF r
      <4>2. r \o <<y>> \in Seq({"readByte", "readPec", "readStop"})
        BY <4>1
      <4>3. {"readByte", "readPec", "readStop"} \subseteq Descriptors \ Starts
        BY DEF Descriptors, Starts, Ends, Fetches
      <4>4. r \o <<y>> \in Seq(Descriptors \ Starts)
        BY <4>2, <4>3
      <4> QED BY <4>4 DEF r
    <3>2. n \in Int /\ n - 1 \in Int
      BY <1>1
    <3> QED BY <3>1, <3>2
  <2> HIDE DEF xs
  <2>4. ds \in Seq(Descriptors) /\ \A k \in DOMAIN ds : k # 1 => ds[k] \notin Starts
    BY <2>3, DescriptorsAre
  <2>5. \A k, l \in DOMAIN ds : k < l => l # 1
    BY <2>4
  <2> HIDE DEF ds
  <2>6. Added(d, i, t, ends, ds)
    BY <1>1, <2>2, <2>4, <2>5 DEF Added, ReadStates, LastStates
  <2> HIDE DEF n
  <2>7. Worked(t, i) /\ t.inst[i].proto = x.proto
    BY <1>1, <2>2 DEF Worked, Taken, Frame
  <2> QED BY <1>3, <2>2, <2>6, <2>7, DescriptorsAre DEF Onward, ReadStates
<1> QED BY <1>2, <1>3

\* Descriptors for bytes, and the one that ends them.
LEMMA ReadsAndLast ==
  ASSUME NEW n \in Nat, NEW y \in {"readPec", "readStop"}, NEW r, r = Rep("readByte", n) \o <<y>>
  PROVE  /\ r \in Seq({"readByte", "readPec", "readStop"}) /\ ToSet(r) \subseteq {"readByte", "readPec", "readStop"}
         /\ Len(r) = n + 1
<1> DEFINE b == Rep("readByte", n)
<1>1. b \in Seq({"readByte"}) /\ Len(b) = n
  <2>1. n \in Int
    OBVIOUS
  <2>2. b \in Seq({"readByte"}) /\ Len(b) = IF n > 0 THEN n ELSE 0
    BY <2>1, RepIs
  <2> HIDE DEF b
  <2> QED BY <2>2
<1> HIDE DEF b
<1>2. r = b \o <<y>>
  BY DEF b
<1> DEFINE S == {"readByte", "readPec", "readStop"}
<1>3. b \in Seq(S) /\ y \in S
  BY <1>1
<1> HIDE DEF S
<1>4. r = Append(b, y) /\ Len(r) = n + 1
  BY <1>1, <1>2
<1>5. r \in Seq(S) /\ ToSet(r) \subseteq S
  <2>1. Append(b, y) \in Seq(S) 
    BY <1>3, ElementsOfAppended
  <2>2. r \in Seq(S)
    BY <1>4, <2>1
  <2> QED BY <2>2 DEF ToSet
<1> QED BY <1>4, <1>5 DEF S

\* More of a block is asked for; what ends it comes with the descriptors of all that is expected.
LEMMA FillReadsOnward ==
  ASSUME NEW d, NEW i, NEW e, NEW ends, Taken(d, i, e, ends), d.inst[i].state \in {"ReadByte", "ReadDone"},
         d.inst[i].proto \in Reads \cup Calls \cup {"receive"}
  PROVE  Onward(d, i, FillReads(d, i), ends)
<1> DEFINE x == d.inst[i]
           t == FillReads(d, i)
           last == IF x.pec THEN x.expect ELSE x.expect - 1
           room == Room(d.cDesc)
           n == Least(room, last - x.descs)
           full == x.descs + n = last /\ room > n
           one == IF x.pec THEN "readPec" ELSE "readStop"
           xs == Rep("readByte", n) \o (IF ~ full THEN <<>> ELSE IF x.pec THEN <<"readPec">> ELSE <<"readStop">>)
<1> SUFFICES Onward(d, i, t, ends)
  OBVIOUS
<1>1. CASE ~ (x.descs < x.expect)
  <2>1. t = d
    BY <1>1 DEF FillReads
  <2>2. Onward(d, i, d, ends)
    BY StaysOnward DEF ReadStates
  <2> QED BY <2>1, <2>2
<1>2. CASE x.descs < x.expect
  <2>1. x.descs \in Int /\ x.expect \in Int /\ room \in Int /\ last \in Int /\ x.pec \in BOOLEAN
    BY SmbusAssumption DEF Taken, Worked, Room
  <2>2. n \in Int /\ (full => n >= 0) /\ x.descs <= last /\ last + 1 >= x.expect
    <3> HIDE DEF room
    <3> QED BY <1>2, <2>1 DEF Least
  <2>3. ~ ends
    BY <1>2, <2>1 DEF Taken, LastStates
  <2>4. t = Go(Control([d EXCEPT !.inst[i].descs = @ + Len(xs)], xs))
    BY <1>2 DEF FillReads
  <2>5. /\ xs \in Seq({"readByte", "readPec", "readStop"})
        /\ ToSet(xs) \subseteq IF full THEN {"readByte", "readPec", "readStop"} ELSE {"readByte"}
        /\ full => Len(xs) = n + 1
    <3>1. CASE ~ full
      <4>0. Rep("readByte", n) \in Seq({"readByte"}) /\ ToSet(Rep("readByte", n)) \subseteq {"readByte"}
        BY <2>2, RepIs
      <4>1. xs = Rep("readByte", n)
        BY <3>1, <4>0
      <4> HIDE DEF xs, full
      <4> QED BY <3>1, <4>0, <4>1
    <3>2. CASE full
      <4>1. n \in Nat
        BY <2>2, <3>2
      <4>2. one \in {"readPec", "readStop"}
        OBVIOUS
      <4>3. xs = Rep("readByte", n) \o <<one>>
        <5> HIDE DEF n, full
        <5>1. CASE x.pec
          BY <3>2, <5>1
        <5>2. CASE ~ x.pec
          BY <3>2, <5>2
        <5> QED BY <5>1, <5>2
      <4> HIDE DEF xs, full, one, n
      <4> QED BY <3>2, <4>1, <4>2, <4>3, ReadsAndLast
    <3> QED BY <3>1, <3>2
  <2> HIDE DEF xs, t, full, n, last
  <2>6. /\ Frame(d, i, t) /\ t.inst[i].state = x.state /\ t.queue[i] = d.queue[i]
        /\ t.cDesc = d.cDesc \o xs
        /\ t.cRx = d.cRx /\ t.cThr = d.cThr /\ t.inst[i].expect = x.expect /\ t.inst[i].descs = x.descs + Len(xs)
        /\ t.inst[i].size = x.size /\ t.inst[i].buf = x.buf
    BY <2>4, StatesAre DEF Go, Control, Frame, Same, Whole, Fields, InstanceFields, Taken
  <2>7. Len(xs) \in Nat /\ xs \in Seq(Descriptors) /\ \A k \in DOMAIN xs : xs[k] \notin Starts
    <3>1. {"readByte", "readPec", "readStop"} \subseteq Descriptors \ Starts
      BY DEF Descriptors, Starts, Ends, Fetches
    <3>2. xs \in Seq(Descriptors \ Starts)
      BY <2>5, <3>1
    <3> QED BY <3>2
  <2>8. ToSet(xs) \cap Ends # {} => full
    BY <2>5 DEF Ends
  <2>9. full => x.descs + Len(xs) >= x.expect
    BY <2>1, <2>2, <2>5 DEF full
  <2>10. Added(d, i, t, ends, xs)
    BY <2>3, <2>6, <2>7, <2>8, <2>9 DEF Added, ReadStates, LastStates
  <2>11. Worked(t, i) /\ t.inst[i].proto = x.proto
    BY <2>6, <2>7 DEF Worked, Taken, Frame
  <2> QED BY <2>6, <2>10, <2>11, DescriptorsAre DEF Onward, ReadStates
<1> QED BY <1>1, <1>2

\* The size of a block.
LEMMA ReadBlockSizeOnward ==
  ASSUME NEW d, NEW i, NEW e \in {"cData", "cEmpty"}, NEW ends, Taken(d, i, e, ends), d.inst[i].state = "ReadBlockSize",
         d.inst[i].proto \in Blocks
  PROVE  Onward(d, i, ReadBlockSize(d, i, e), ends)
<1> DEFINE x == d.inst[i]
           t == ReadBlockSize(d, i, e)
           n == IF d.cRx = <<>> THEN 0 ELSE Head(d.cRx).val
           rx == IF d.cRx = <<>> THEN d.cRx ELSE Tail(d.cRx)
           thr == IF n > 0 THEN Least(n, Half) ELSE d.cThr
           u == [d EXCEPT !.cRx = rx, !.inst[i].expect = n, !.inst[i].descs = 0, !.cThr = thr]
           Lists == {<<"readByte", "readPec">>, <<"readByte">>, <<"readStop">>}
<1> SUFFICES Onward(d, i, t, ends)
  OBVIOUS
<1>1. ~ ends /\ x.proto \in Reads \cup Calls
  BY DEF Taken, LastStates, Blocks, Reads, Calls
<1>2. CASE e = "cEmpty"
  <2>1. t = d
    BY <1>2 DEF ReadBlockSize
  <2>2. Onward(d, i, d, ends)
    BY <1>1, StaysOnward DEF ReadStates
  <2> QED BY <2>1, <2>2
<1>3. CASE e = "cData"
  <2>1. n \in Nat /\ rx \in Seq(Received) /\ thr \in Nat \ {0}
    <3>1. CASE d.cRx = <<>>
      BY <3>1 DEF Taken, Worked
    <3>2. CASE d.cRx # <<>>
      <4>1. Head(d.cRx) \in Received /\ Tail(d.cRx) \in Seq(Received)
        BY <3>2, HeadAndTail DEF Taken, Worked
      <4>2. Head(d.cRx).val \in Nat
        BY <4>1 DEF Received
      <4>3. n \in Nat
        BY <3>2, <4>2
      <4> HIDE DEF n
      <4> QED BY <3>2, <4>1, <4>3, SmbusAssumption DEF Taken, Worked, Least
    <3> QED BY <3>1, <3>2
  <2>2. \E state \in {"ReadByte", "ReadDone"}, ds \in Lists :
          t = To(Go(Control(u, ds)), i, state) /\ (ds # <<"readByte">> => n = 0)
    <3>1. \/ t = To(Go(Control(u, IF n = 0 THEN <<"readByte", "readPec">> ELSE <<"readByte">>)), i, "ReadByte")
          \/ t = To(Go(Control(u, <<"readStop">>)), i, "ReadDone") /\ n = 0
          \/ t = To(Go(Control(u, <<"readByte">>)), i, "ReadByte")
      BY <1>3 DEF ReadBlockSize
    <3> HIDE DEF t, u, n
    <3> QED BY <3>1
  <2>3. PICK state \in {"ReadByte", "ReadDone"}, ds \in Lists :
          t = To(Go(Control(u, ds)), i, state) /\ (ds # <<"readByte">> => n = 0)
    BY <2>2
  <2>4. ds \in Seq(Descriptors) /\ (\A k \in DOMAIN ds : ds[k] \notin Starts) /\ (ds = <<"readByte">> => ToSet(ds) = {"readByte"})
    <3>1. CASE ds = <<"readByte", "readPec">>
      <4>1. DOMAIN ds = {1, 2} /\ ds[1] = "readByte" /\ ds[2] = "readPec" /\ ds \in Seq({"readByte", "readPec"})
        BY <3>1
      <4>2. ds \in Seq(Descriptors)
        BY <4>1, DescriptorsAre
      <4> QED BY <3>1, <4>1, <4>2 DEF Starts
    <3>2. CASE ds \in {<<"readByte">>, <<"readStop">>}
      <4>1. PICK y \in {"readByte", "readStop"} : ds = <<y>>
        BY <3>2
      <4>2. ds \in Seq(Descriptors) /\ ToSet(ds) = {y}
        BY <4>1, AddedOne, DescriptorsAre
      <4> QED BY <3>2, <4>1, <4>2 DEF Starts
    <3> QED BY <2>3, <3>1, <3>2
  <2> HIDE DEF t, Lists, n, rx, thr
  <2>5. /\ Frame(d, i, t) /\ t.inst[i].state = state /\ t.queue[i] = d.queue[i]
        /\ t.cDesc = d.cDesc \o ds
        /\ t.cRx = rx /\ t.cThr = thr /\ t.inst[i].expect = n /\ t.inst[i].descs = 0
        /\ t.inst[i].size = x.size /\ t.inst[i].buf = x.buf
    <3>1. /\ Frame(d, i, u) /\ u.queue = d.queue /\ u.cDesc = d.cDesc /\ u.cRx = rx /\ u.cThr = thr
          /\ u.inst[i].expect = n /\ u.inst[i].descs = 0 /\ u.inst[i].size = x.size /\ u.inst[i].buf = x.buf
      BY DEF Frame, Same, Whole, Fields, InstanceFields, Taken
    <3> HIDE DEF u
    <3>2. Solid(u, i)
      BY <3>1 DEF Solid, Frame, Same, Taken
    <3>3. Sent(u, i, t, state, ds)
      BY <2>3, <3>2, StatesAre, SentIs
    <3>4. Frame(d, i, t)
      BY <3>1, <3>3, FrameTwice DEF Sent
    <3> QED BY <3>1, <3>3, <3>4 DEF Sent, SameData
  <2>6. ToSet(ds) \cap Ends # {} => n = 0
    BY <2>3, <2>4 DEF Ends
  <2>7. Added(d, i, t, ends, ds)
    BY <1>1, <2>1, <2>4, <2>5, <2>6 DEF Added, ReadStates, LastStates
  <2>8. Worked(t, i) /\ t.inst[i].proto = x.proto
    BY <2>1, <2>5 DEF Worked, Taken, Frame
  <2> QED BY <1>1, <2>5, <2>7, <2>8, DescriptorsAre DEF Onward, ReadStates
<1> QED BY <1>2, <1>3

\* The data.
LEMMA ReadByteOnward ==
  ASSUME NEW d, NEW i, NEW e \in {"cData", "cEmpty", "cDone"}, NEW ends, Taken(d, i, e, ends), d.inst[i].state = "ReadByte",
         d.inst[i].proto \in Reads \cup Calls \cup {"receive"}
  PROVE  Onward(d, i, ReadByte(d, i, e), ends)
<1> DEFINE x == d.inst[i]
           t == ReadByte(d, i, e)
           u == [d EXCEPT !.inst[i].buf = @ \o d.cRx, !.cRx = <<>>]
           all == x.buf \o d.cRx
           left == x.expect - Len(all)
<1> SUFFICES Onward(d, i, t, ends)
  OBVIOUS
<1>0. Onward(d, i, d, ends) /\ Onward(d, i, FillReads(d, i), ends)
  BY StaysOnward, FillReadsOnward DEF ReadStates
<1>1. CASE e \in {"cEmpty", "cDone"}
  <2>1. t \in {d, FillReads(d, i)}
    BY <1>1 DEF ReadByte
  <2> QED BY <1>0, <2>1
<1>2. CASE e = "cData"
  <2>1. x.buf \in Seq(Received) /\ d.cRx \in Seq(Received) /\ x.buf \o d.cRx \in Seq(Received) /\ x.expect \in Int
    BY DEF Taken, Worked
  <2>2. left \in Int /\ (left > 0 => Least(left, Half) \in Nat \ {0})
    <3>1. left \in Int
      <4>1. all \in Seq(Received) /\ x.expect \in Int
        BY <2>1
      <4> HIDE DEF all
      <4> QED BY <4>1
    <3> HIDE DEF left
    <3> QED BY <3>1, SmbusAssumption DEF Least
  <2>3. /\ u.inst[i].expect = x.expect /\ u.inst[i].buf = x.buf \o d.cRx /\ u.inst[i].proto = x.proto
    BY DEF Taken, Whole, Fields, InstanceFields
  <2>4. \E state \in {"ReadByte", "ReadDone"}, thr \in Nat \ {0} : t = [u EXCEPT !.cThr = thr] \/ t = To([u EXCEPT !.cThr = thr], i, "ReadDone")
    <3>1. \/ left > 0 /\ t = [u EXCEPT !.cThr = Least(left, Half)]
          \/ t = [u EXCEPT !.cThr = 1]
          \/ t = To([u EXCEPT !.cThr = 1], i, "ReadDone")
      <4> HIDE DEF u
      <4>1. \/ u.inst[i].expect - Len(u.inst[i].buf) > 0 /\ t = [u EXCEPT !.cThr = Least(u.inst[i].expect - Len(u.inst[i].buf), Half)]
            \/ t = [u EXCEPT !.cThr = 1]
            \/ t = To([u EXCEPT !.cThr = 1], i, "ReadDone")
        BY <1>2, <2>3 DEF ReadByte, u
      <4> QED BY <2>3, <4>1
    <3> HIDE DEF t, u, left
    <3> QED BY <2>2, <3>1
  <2>5. PICK thr \in Nat \ {0} : t = [u EXCEPT !.cThr = thr] \/ t = To([u EXCEPT !.cThr = thr], i, "ReadDone")
    BY <2>4
  <2> HIDE DEF t, left
  <2>6. /\ Frame(d, i, t) /\ t.inst[i].state \in {"ReadByte", "ReadDone"} /\ t.queue[i] = d.queue[i]
        /\ t.cDesc = d.cDesc
        /\ t.cRx = <<>> /\ t.cThr = thr /\ t.inst[i].expect = x.expect /\ t.inst[i].descs = x.descs
        /\ t.inst[i].size = x.size /\ t.inst[i].buf = x.buf \o d.cRx
    <3> DEFINE v == [u EXCEPT !.cThr = thr]
    <3>1. /\ DOMAIN v = Fields /\ v.cRx = <<>> /\ v.cThr = thr /\ v.cDesc = d.cDesc /\ v.queue = d.queue
          /\ v.txn = d.txn /\ v.inPlay = d.inPlay /\ v.answers = d.answers /\ v.ctlrOn = d.ctlrOn
      BY DEF Whole, Fields, Taken
    <3>2. DOMAIN v.inst = Instances /\ \A j \in Instances \ {i} : v.inst[j] = d.inst[j]
      BY DEF Whole, Fields, Taken
    <3>3. v.inst[i] = [x EXCEPT !.buf = @ \o d.cRx]
      BY DEF Whole, Fields, Taken
    <3> HIDE DEF v
    <3>4. /\ DOMAIN v.inst[i] = InstanceFields /\ v.inst[i].state = "ReadByte" /\ v.inst[i].buf = x.buf \o d.cRx
          /\ v.inst[i].expect = x.expect /\ v.inst[i].descs = x.descs /\ v.inst[i].size = x.size
          /\ v.inst[i].proto = x.proto /\ v.inst[i].pec = x.pec
      BY <3>3 DEF Whole, InstanceFields, Taken
    <3>5. Solid(v, i) /\ Frame(d, i, v)
      <4>1. DOMAIN v.queue = Instances /\ i \in Instances
        BY <3>1 DEF Taken
      <4>2. Whole(v)
        <5>1. \A j \in Instances \ {i} : DOMAIN v.inst[j] = InstanceFields /\ v.inst[j].state \in States
          BY <3>2 DEF Whole, Taken
        <5>2. DOMAIN v.inst[i] = InstanceFields /\ v.inst[i].state \in States
          BY <3>4, StatesAre
        <5> HIDE DEF x, all
        <5> QED BY <3>1, <3>2, <5>1, <5>2 DEF Whole
      <4> QED BY <3>1, <3>2, <3>4, <4>1, <4>2 DEF Solid, Frame, Same
    <3>6. CASE t = v
      BY <3>1, <3>4, <3>5, <3>6
    <3>7. CASE t = To(v, i, "ReadDone")
      <4>1. Moved(v, i, t, "ReadDone")
        BY <3>5, <3>7, StatesAre, ToIs
      <4>2. Frame(d, i, t)
        BY <3>5, <4>1, FrameTwice DEF Moved
      <4> QED BY <3>1, <3>4, <4>1, <4>2 DEF Moved, SameData
    <3> QED BY <2>5, <3>6, <3>7 DEF v
  <2> HIDE DEF u
  <2>7. <<>> \in Seq(Descriptors) /\ d.cDesc \o <<>> = d.cDesc /\ ToSet(<<>>) = {} /\ DOMAIN <<>> = {}
    BY DEF Taken, ToSet
  <2>8. t.go = d.go
    <3>1. CASE t = [u EXCEPT !.cThr = thr]
      BY <3>1 DEF u, Taken, Whole, Fields
    <3>2. CASE t = To([u EXCEPT !.cThr = thr], i, "ReadDone")
      BY <3>2 DEF u, To, Taken, Whole, Fields
    <3> QED BY <2>5, <3>1, <3>2
  <2>9. Added(d, i, t, ends, <<>>)
    BY <2>6, <2>7, <2>8 DEF Added, Taken, LastStates, ReadStates
  <2>10. Worked(t, i) /\ t.inst[i].proto = x.proto
    <3>1. x.descs \in Int /\ x.size \in Int /\ <<>> \in Seq(Received)
      BY DEF Taken, Worked
    <3>2. t.inst[i].proto = x.proto
      BY <2>6 DEF Frame
    <3>3. x.expect \in Int /\ x.buf \o d.cRx \in Seq(Received)
      BY <2>1
    <3> HIDE DEF x
    <3> QED BY <2>6, <3>1, <3>2, <3>3 DEF Worked
  <2> QED BY <2>6, <2>9, <2>10, DescriptorsAre DEF Onward, ReadStates
<1> QED BY <1>1, <1>2

\* The end of a read.
LEMMA ReadDoneOnward ==
  ASSUME NEW d, NEW i, NEW e \in {"cData", "cEmpty", "cDone"}, NEW ends, Taken(d, i, e, ends), d.inst[i].state = "ReadDone",
         d.inst[i].proto \in Reads \cup Calls \cup {"receive"}
  PROVE  Onward(d, i, ReadDone(d, i, e), ends) \/ Ended(d, i, ReadDone(d, i, e), e)
<1> DEFINE x == d.inst[i]
           t == ReadDone(d, i, e)
           u == [d EXCEPT !.inst[i].descs = @ + 1]
<1> SUFFICES Onward(d, i, t, ends) \/ Ended(d, i, t, e)
  OBVIOUS
<1>0. Onward(d, i, d, ends) /\ Onward(d, i, FillReads(d, i), ends)
  BY StaysOnward, FillReadsOnward DEF ReadStates
<1>1. CASE t \in {d, FillReads(d, i)}
  BY <1>0, <1>1
<1>2. CASE t = Control(u, <<"readPec">>) /\ x.descs = x.expect
  <2> HIDE DEF t
  <2>1. /\ Frame(d, i, t) /\ t.inst[i].state = "ReadDone" /\ t.queue[i] = d.queue[i]
        /\ t.cDesc = d.cDesc \o <<"readPec">> /\ t.go = d.go
        /\ t.cRx = d.cRx /\ t.cThr = d.cThr /\ t.inst[i].expect = x.expect /\ t.inst[i].descs = x.descs + 1
        /\ t.inst[i].size = x.size /\ t.inst[i].buf = x.buf
    BY <1>2, StatesAre DEF Control, Frame, Same, Whole, Fields, InstanceFields, Taken
  <2>2. <<"readPec">> \in Seq(Descriptors) /\ ToSet(<<"readPec">>) = {"readPec"} /\ \A k, l \in DOMAIN <<"readPec">> : k < l => FALSE
    BY AddedOne, DescriptorsAre
  <2>3. x.descs + 1 >= x.expect /\ x.descs \in Int
    BY <1>2 DEF Taken, Worked
  <2>4. Added(d, i, t, ends, <<"readPec">>)
    BY <2>1, <2>2, <2>3 DEF Added, ReadStates, LastStates, Starts
  <2>5. Worked(t, i) /\ t.inst[i].proto = x.proto
    BY <2>1, <2>3 DEF Worked, Taken, Frame
  <2> QED BY <2>1, <2>4, <2>5, DescriptorsAre DEF Onward, ReadStates
<1>3. CASE e = "cDone"
  <2>1. t = Back(Announce(WriteData(d, i), i, "ok"), i)
    <3>1. x.proto \notin {"none", "quick"}
      BY DEF Reads, Calls
    <3> QED BY <1>3, <3>1 DEF ReadDone
  <2>2. \E g : WriteData(d, i) = [d EXCEPT !.given = g]
    BY DEF WriteData
  <2> HIDE DEF t
  <2>3. Ended(d, i, t, e)
    BY <1>3, <2>1, <2>2, BackEnds DEF Taken, Results
  <2> QED BY <2>3
<1>4. \/ t \in {d, FillReads(d, i)}
      \/ t = Control(u, <<"readPec">>) /\ x.descs = x.expect
      \/ e = "cDone"
  BY DEF ReadDone
<1> QED BY <1>1, <1>2, <1>3, <1>4

\* The end of a write, of a quick command or of a command that was only sent.
LEMMA AwaitingDoneOnward ==
  ASSUME NEW d, NEW i, NEW e \in {"cEmpty", "cDone"}, NEW ends, Taken(d, i, e, ends), d.inst[i].state = "AwaitingDone"
  PROVE  Onward(d, i, AwaitingDone(d, i, e), ends) \/ Ended(d, i, AwaitingDone(d, i, e), e)
<1> DEFINE t == AwaitingDone(d, i, e)
<1> SUFFICES Onward(d, i, t, ends) \/ Ended(d, i, t, e)
  OBVIOUS
<1>1. CASE e = "cEmpty"
  <2>1. t = d
    BY <1>1 DEF AwaitingDone
  <2>2. Onward(d, i, d, ends)
    BY StaysOnward DEF ReadStates
  <2> QED BY <2>1, <2>2
<1>2. CASE e = "cDone"
  <2>1. t = Back(Announce(IF d.inst[i].proto = "blockRead" THEN WriteData(d, i) ELSE d, i, "ok"), i)
    BY <1>2 DEF AwaitingDone
  <2>2. \E g : WriteData(d, i) = [d EXCEPT !.given = g]
    BY DEF WriteData
  <2> HIDE DEF t
  <2>3. Ended(d, i, t, e)
    BY <1>2, <2>1, <2>2, BackEnds DEF Taken, Results
  <2> QED BY <2>3
<1> QED BY <1>1, <1>2

\* What an instance in play needs for its next event: a state that has a handler for it.
Ready(d, i, e) ==
  LET x == d.inst[i] IN
  /\ IF e = "next" THEN x.state \in {"Initial", "SendCommand", "WriteByte", "SendReadStart"}
     ELSE x.state \in {"WriteByte", "AwaitingDone"} \cup ReadStates
  /\ e = "cData" => x.state \in ReadStates
  /\ x.state \notin ReadStates => d.cRx = <<>>
  /\ x.state = "Initial" => x.proto \in OwnProtos
  /\ x.state = "SendCommand" => x.proto \in Reads \cup Calls \cup Writes
  /\ x.state = "WriteByte" => x.proto \in Calls \cup Writes /\ (e # "cError" => ToSet(d.queue[i]) \cap ControllerBits = {})
  /\ x.state \in ReadStates \cup {"SendReadStart"} => x.proto \in Reads \cup Calls \cup {"receive"}
  /\ x.state = "ReadBlockSize" => x.proto \in Blocks

\* Every event of a command, in every state that it can find.
LEMMA FsmInPlay ==
  ASSUME NEW d, NEW i, NEW e, NEW ends, Taken(d, i, e, ends), Ready(d, i, e)
  PROVE  Onward(d, i, Fsm(d, i, e), ends) \/ (e # "next" /\ Ended(d, i, Fsm(d, i, e), e))
<1> DEFINE x == d.inst[i]
<1>1. CASE e = "cError"
  <2>1. Fsm(d, i, e) = Back(Announce(d, i, "error"), i)
    BY <1>1 DEF Fsm
  <2>2. Ended(d, i, Back(Announce(d, i, "error"), i), e)
    BY BackEnds DEF Taken, Results
  <2> QED BY <1>1, <2>1, <2>2
<1>2. CASE e = "next"
  <2>1. CASE x.state = "Initial"
    <3>1. Fsm(d, i, e) = Initial(d, i, "next")
      BY <1>2, <2>1 DEF Fsm
    <3> QED BY <1>2, <2>1, <3>1, InitialOnward DEF Ready, ReadStates
  <2>2. CASE x.state = "SendCommand"
    <3>1. Fsm(d, i, e) = SendCommand(d, i, "next")
      BY <1>2, <2>2 DEF Fsm
    <3> QED BY <1>2, <2>2, <3>1, SendCommandOnward DEF Ready, ReadStates
  <2>3. CASE x.state = "WriteByte"
    <3>1. Fsm(d, i, e) = WriteByte(d, i, e)
      BY <1>2, <2>3 DEF Fsm
    <3> QED BY <1>2, <2>3, <3>1, WriteByteOnward DEF Ready, ReadStates
  <2>4. CASE x.state = "SendReadStart"
    <3>1. Fsm(d, i, e) = SendReadStart(d, i, "next")
      BY <1>2, <2>4 DEF Fsm
    <3> QED BY <1>2, <2>4, <3>1, SendReadStartOnward DEF Ready
  <2> QED BY <1>2, <2>1, <2>2, <2>3, <2>4 DEF Ready
<1>3. CASE e \in {"cData", "cEmpty", "cDone"}
  <2>1. CASE x.state = "WriteByte"
    <3>1. e = "cEmpty" /\ Fsm(d, i, e) = WriteByte(d, i, e)
      BY <1>3, <2>1 DEF Fsm, Ready, Taken, LastStates, ReadStates
    <3> QED BY <2>1, <3>1, WriteByteOnward DEF Ready, ReadStates
  <2>2. CASE x.state = "ReadBlockSize"
    <3>1. e \in {"cData", "cEmpty"} /\ Fsm(d, i, e) = ReadBlockSize(d, i, e)
      BY <1>3, <2>2 DEF Fsm, Taken, LastStates
    <3> QED BY <2>2, <3>1, ReadBlockSizeOnward DEF Ready
  <2>3. CASE x.state = "ReadByte"
    <3>1. Fsm(d, i, e) = ReadByte(d, i, e)
      BY <1>3, <2>3 DEF Fsm
    <3> QED BY <1>3, <2>3, <3>1, ReadByteOnward DEF Ready, ReadStates
  <2>4. CASE x.state = "ReadDone"
    <3>1. Fsm(d, i, e) = ReadDone(d, i, e)
      BY <1>3, <2>4 DEF Fsm
    <3> QED BY <1>3, <2>4, <3>1, ReadDoneOnward DEF Ready, ReadStates
  <2>5. CASE x.state = "AwaitingDone"
    <3>1. e \in {"cEmpty", "cDone"} /\ Fsm(d, i, e) = AwaitingDone(d, i, e)
      BY <1>3, <2>5 DEF Fsm, Ready, ReadStates
    <3> QED BY <2>5, <3>1, AwaitingDoneOnward
  <2> QED BY <1>3, <2>1, <2>2, <2>3, <2>4, <2>5 DEF Ready, ReadStates
<1> QED BY <1>1, <1>2, <1>3 DEF Taken, ControllerBits

-----------------------------------------------------------------------------
(* An event is handled.                                                     *)

\* What is known of the command in play when its next event is taken.
Known(i, e) ==
  LET x == s.inst[i]
      rest == ToSet(Tail(s.queue[i])) IN
  /\ x.pec \in BOOLEAN /\ x.proto \in OwnProtos
  /\ "next" \notin rest /\ "pec" \notin rest
  /\ x.state \notin ReadStates => "cData" \notin Raised /\ s.cRx = <<>> /\ ToSet(s.cDesc) \cap Fetches = {}
  /\ "cDone" \in Raised => s.txn \in finished
  /\ task.pc \notin {"fill", "raise"}
  /\ e \in ControllerBits => s.ctlrOn
ComesToEnd == "cDone" \in Raised \/ ToSet(s.cDesc) \cap Ends # {}

\* The driver without the first event of a queue.
Popped(i) == [s EXCEPT !.queue[i] = Tail(@)]

\* What is left when the first event is taken.
LEMMA PoppedIs ==
  ASSUME AnswersInv, QueueInv, NEW i \in Instances, s.queue[i] # <<>>
  PROVE  /\ Whole(Popped(i)) /\ Same(s, Popped(i)) /\ DOMAIN Popped(i).queue = Instances
         /\ Popped(i).queue[i] = Tail(s.queue[i]) /\ Tail(s.queue[i]) \in Seq(Events)
         /\ \A j \in Instances \ {i} : Popped(i).queue[j] = s.queue[j]
         /\ \A f \in Fields \ {"queue"} : Popped(i)[f] = s[f]
         /\ Head(s.queue[i]) \in Events /\ Head(s.queue[i]) \in ToSet(s.queue[i])
         /\ ToSet(s.queue[i]) = {Head(s.queue[i])} \cup ToSet(Tail(s.queue[i]))
<1>1. DOMAIN s = Fields /\ DOMAIN s.queue = Instances /\ (\A j \in Instances : s.queue[j] \in Seq(Events)) /\ Whole(s)
  BY DEF AnswersInv, Whole, QueueInv
<1>2. s.queue[i] \in Seq(Events)
  BY <1>1
<1>3. /\ Head(s.queue[i]) \in Events /\ Tail(s.queue[i]) \in Seq(Events)
      /\ Head(s.queue[i]) \in ToSet(s.queue[i]) /\ ToSet(s.queue[i]) = {Head(s.queue[i])} \cup ToSet(Tail(s.queue[i]))
  BY <1>2, HeadAndTail
<1>4. Same(s, Popped(i)) /\ Whole(Popped(i))
  BY <1>1 DEF Popped, Same, Whole, Fields
<1>5. \A f \in Fields \ {"queue"} : Popped(i)[f] = s[f]
  BY <1>1 DEF Popped, Fields
<1>6. /\ DOMAIN Popped(i).queue = Instances /\ Popped(i).queue[i] = Tail(s.queue[i])
      /\ \A j \in Instances \ {i} : Popped(i).queue[j] = s.queue[j]
  BY <1>1 DEF Popped, Fields
<1> QED BY <1>3, <1>4, <1>5, <1>6

\* The fields of the driver but its queues.
LEMMA FieldsAre ==
  \A f \in {"inst", "inPlay", "active", "txn", "ctlrOn", "go", "tRx", "tDesc", "tThr",
            "cRx", "cDesc", "cThr", "answers", "given"} : f \in Fields \ {"queue"}
BY DEF Fields

\* The events after one that is not repeated.
LEMMA OrderedRest ==
  ASSUME s.inPlay \in Instances, s.queue[s.inPlay] \in Seq(Events), Queue # <<>>, Ordered
  PROVE  /\ Head(Queue) = "next" => "next" \notin ToSet(Tail(Queue))
         /\ Head(Queue) = "cEmpty" => ToSet(Tail(Queue)) \cap {"cError", "cEmpty"} = {}
<1> DEFINE q == Queue
<1>1. q \in Seq(Events) /\ q # <<>>
  BY DEF Queue
<1>2. \A k, l \in DOMAIN q : /\ q[k] = "next" /\ q[l] = "next" => k = l
                             /\ k < l /\ q[k] = "cEmpty" => q[l] \notin {"cError", "cEmpty"}
  BY DEF Ordered
<1> HIDE DEF q
<1>3. Head(q) = q[1] /\ 1 \in DOMAIN q /\ Len(q) \in Nat
  BY <1>1
<1>4. \A k \in DOMAIN Tail(q) : k + 1 \in DOMAIN q /\ Tail(q)[k] = q[k + 1] /\ 1 < k + 1 /\ 1 # k + 1
  BY <1>1
<1>5. \A k \in DOMAIN Tail(q) : /\ q[1] = "next" => Tail(q)[k] # "next"
                                /\ q[1] = "cEmpty" => Tail(q)[k] \notin {"cError", "cEmpty"}
  BY <1>2, <1>3, <1>4
<1>6. q[1] = "cEmpty" => ToSet(Tail(q)) \cap {"cError", "cEmpty"} = {}
  BY <1>5 DEF ToSet
<1>7. q[1] = "next" => "next" \notin ToSet(Tail(q))
  BY <1>5 DEF ToSet
<1> QED BY <1>3, <1>6, <1>7 DEF q

\* The command in play has a handler for its next event.
LEMMA PlayIsReady ==
  ASSUME AnswersInv, Controlled, NEW i \in Instances, i = s.inPlay, s.queue[i] # <<>>, NEW e, e = Head(s.queue[i]),
         e \notin TargetBits, e = "next" => s.inst[i].state \in {"Initial"} \cup ControllerStates
  PROVE  Taken(Popped(i), i, e, ComesToEnd) /\ Ready(Popped(i), i, e) /\ Known(i, e)
<1> DEFINE d == Popped(i)
           q == s.queue[i]
           x == s.inst[i]
<1>1. /\ Whole(d) /\ DOMAIN d.queue = Instances /\ d.queue[i] = Tail(q) /\ Tail(q) \in Seq(Events)
      /\ d.inst = s.inst /\ d.cDesc = s.cDesc /\ d.cRx = s.cRx /\ d.cThr = s.cThr /\ d.inPlay = i
      /\ e \in Events /\ ToSet(q) = {e} \cup ToSet(Tail(q))
  BY PoppedIs, FieldsAre DEF Controlled
<1>2. Queue = q /\ Play = x /\ i # None
  BY SmbusAssumption DEF Queue, Play
<1>3. /\ QueueInv /\ TaskInv /\ OthersInv /\ EngineInv /\ Ordered /\ WaitingInv /\ RunningInv
  BY <1>2 DEF Controlled
<1>4. q \in Seq(Events) /\ s.cDesc \in Seq(Descriptors) /\ s.cRx \in Seq(Received) /\ s.cThr \in Nat \ {0}
  BY <1>3 DEF QueueInv, EngineInv
<1>5. /\ e = "next" => "next" \notin ToSet(Tail(q))
      /\ e = "cEmpty" => ToSet(Tail(q)) \cap {"cError", "cEmpty"} = {}
  BY <1>2, <1>3, <1>4, OrderedRest
<1>6. x.state \in States /\ ToSet(q) \subseteq irq \cup isr.vec \cup ToSet(q) /\ Raised = irq \cup isr.vec \cup ToSet(q)
  BY <1>2 DEF AnswersInv, Whole, Raised
<1> HIDE DEF d
<1>7. CASE Waiting
  <2>1. /\ Quiet /\ s.cDesc = <<>> /\ s.cRx = <<>> /\ ToSet(q) \cap (ControllerBits \cup {"pec"}) = {}
        /\ x.state \notin ControllerStates
        /\ task.pc \in {"fill", "raise", "disable", "drain"}
        /\ task.pc \in {"fill", "raise"} => "next" \notin ToSet(q)
        /\ task.pc # "fill" => x.proto = task.proto /\ x.size \in Nat /\ x.pec \in BOOLEAN
    BY <1>2, <1>3, <1>7 DEF WaitingInv
  <2>2. e = "next" /\ x.state = "Initial" /\ "next" \in ToSet(q)
    BY <1>1, <2>1 DEF Events
  <2>3. task.proto \in OwnProtos /\ task.pc \in {"disable", "drain"}
    BY <1>3, <2>1, <2>2 DEF TaskInv, IdleTask
  <2>4. x.expect = 0 /\ x.descs = 0 /\ x.buf = <<>>
    BY <1>3, <2>2 DEF OthersInv, Clean
  <2>5. ToSet(s.cDesc) = {} /\ Raised \cap ControllerBits = {}
    BY <1>6, <2>1 DEF Quiet, ToSet
  <2>6. ~ ComesToEnd
    BY <2>5 DEF ComesToEnd, ControllerBits
  <2>7. Taken(d, i, e, ComesToEnd)
    <3>1. ComesToEnd \in BOOLEAN
      BY DEF ComesToEnd
    <3> HIDE DEF x
    <3>2. d.inst[i] = x
      BY <1>1 DEF x
    <3>3. x.size \in Int /\ x.pec \in BOOLEAN
      BY <2>1, <2>3
    <3>4. Worked(d, i)
      <4>1. d.inst[i].expect = 0 /\ d.inst[i].descs = 0 /\ d.inst[i].buf = <<>> /\ d.inst[i].size \in Int
        BY <2>4, <3>2, <3>3
      <4>2. d.cRx \in Seq(Received) /\ d.cThr \in Nat \ {0}
        BY <1>1, <1>4
      <4>3. <<>> \in Seq(Received)
        OBVIOUS
      <4> QED BY <4>1, <4>2, <4>3 DEF Worked
    <3>5. ToSet(Tail(q)) \cap ControllerBits = {} /\ "next" \notin ToSet(Tail(q))
      BY <1>1, <1>5, <2>1, <2>2
    <3> HIDE DEF q
    <3> QED BY <1>1, <1>4, <2>2, <2>6, <3>1, <3>2, <3>3, <3>4, <3>5 DEF Taken
  <2>8. Ready(d, i, e)
    BY <1>1, <2>1, <2>2, <2>3 DEF Ready, ReadStates
  <2>9. Known(i, e)
    BY <1>1, <1>5, <2>1, <2>2, <2>3, <2>5, DescriptorsAre DEF Known, ControllerBits
  <2> QED BY <2>7, <2>8, <2>9 DEF d
<1>8. CASE ~ Waiting
  <2>1. /\ x.state \in ControllerStates \cup {"AwaitingDone"} /\ "pec" \notin ToSet(q)
        /\ x.expect \in Int /\ x.descs \in Int /\ x.size \in Int /\ x.buf \in Seq(Received)
        /\ x.pec \in BOOLEAN /\ x.proto \in OwnProtos
        /\ "next" \in ToSet(q) => ToSet(q) \cap ControllerBits = {}
        /\ x.state \in {"SendCommand", "SendReadStart"} => "next" \in ToSet(q)
        /\ x.state \in ReadStates \cup {"AwaitingDone"} => "next" \notin ToSet(q)
        /\ x.state \notin ReadStates =>
             "cData" \notin Raised /\ s.cRx = <<>> /\ ToSet(s.cDesc) \cap Fetches = {}
        /\ ComesToEnd => LastStates(x)
        /\ "cDone" \in Raised => s.txn \in finished
        /\ x.state = "SendCommand" => x.proto \in Reads \cup Calls \cup Writes
        /\ x.state = "WriteByte" => x.proto \in Calls \cup Writes
        /\ x.state \in ReadStates \cup {"SendReadStart"} => x.proto \in Reads \cup Calls \cup {"receive"}
        /\ x.state = "ReadBlockSize" => x.proto \in Blocks
    BY <1>2, <1>3, <1>8 DEF RunningInv, ComesToEnd, LastStates
  <2>2. task.pc \notin {"fill", "raise"}
    BY <1>8 DEF Waiting
  <2>3. e \in {"next"} \cup ControllerBits
    BY <1>1, <2>1 DEF Events
  <2>4. e \in ControllerBits => "next" \notin ToSet(q) /\ s.ctlrOn
    BY <1>1, <1>2, <1>3, <2>1 DEF EngineInv
  <2>5. "next" \notin ToSet(Tail(q)) /\ (e = "next" => ToSet(Tail(q)) \cap ControllerBits = {})
    BY <1>1, <1>5, <2>1, <2>3, <2>4
  <2>6. e = "cDone" => ComesToEnd
    BY <1>1, <1>6 DEF ComesToEnd
  <2>7. Taken(d, i, e, ComesToEnd)
    <3>1. ComesToEnd \in BOOLEAN
      BY DEF ComesToEnd
    <3> HIDE DEF x
    <3>2. d.inst[i] = x
      BY <1>1 DEF x
    <3> QED BY <1>1, <1>4, <2>1, <2>3, <2>5, <2>6, <3>1, <3>2 DEF Taken, Worked
  <2>8. ControllerStates = {"SendCommand", "WriteByte", "SendReadStart"} \cup ReadStates /\ "next" \notin ControllerBits
    BY DEF ControllerStates, ReadStates, ControllerBits
  <2>9. e = "cData" => x.state \in ReadStates
    BY <1>1, <1>6, <2>1
  <2>10. x.state = "WriteByte" /\ e # "cError" => ToSet(Tail(q)) \cap ControllerBits = {}
    <3>1. ASSUME x.state = "WriteByte", e # "cError" PROVE ToSet(Tail(q)) \cap ControllerBits = {}
      <4>1. "cData" \notin Raised /\ ~ LastStates(x)
        BY <2>1, <3>1 DEF ReadStates, LastStates
      <4>2. "cDone" \notin Raised
        BY <2>1, <4>1 DEF ComesToEnd
      <4>3. CASE e = "next"
        BY <2>5, <4>3
      <4>4. CASE e # "next"
        <5>1. e = "cEmpty" /\ "cData" \notin ToSet(Tail(q)) /\ "cDone" \notin ToSet(Tail(q))
          BY <1>1, <1>6, <2>3, <3>1, <4>1, <4>2, <4>4 DEF ControllerBits
        <5>2. ToSet(Tail(q)) \cap {"cError", "cEmpty"} = {}
          BY <1>5, <5>1
        <5> HIDE DEF q
        <5> QED BY <5>1, <5>2 DEF ControllerBits
      <4> QED BY <4>3, <4>4
    <3> QED BY <3>1
  <2>11. Ready(d, i, e)
    <3> HIDE DEF x
    <3>2. d.inst[i] = x
      BY <1>1 DEF x
    <3> QED BY <1>1, <2>1, <2>3, <2>4, <2>8, <2>9, <2>10, <3>2 DEF Ready
  <2>12. Known(i, e)
    BY <1>1, <2>1, <2>2, <2>4, <2>5 DEF Known
  <2> QED BY <2>7, <2>11, <2>12 DEF d
<1> QED BY <1>7, <1>8

\* Once a descriptor ends a command, no descriptor starts one.
NoStartAfterEnd(p) == \A k, l \in DOMAIN p : k < l /\ p[k] \in Ends => p[l] \notin Starts
\* Descriptors behind others.
LEMMA JoinedOrder ==
  ASSUME NEW p \in Seq(Descriptors), NEW q \in Seq(Descriptors), NoStartAfterEnd(p), NoStartAfterEnd(q),
         ToSet(p) \cap Ends # {} => ToSet(q) \cap Starts = {}
  PROVE  NoStartAfterEnd(p \o q)
<1> DEFINE r == p \o q
<1>1. /\ Len(p) \in Nat /\ Len(q) \in Nat
      /\ DOMAIN p = 1 .. Len(p) /\ DOMAIN q = 1 .. Len(q) /\ DOMAIN r = 1 .. Len(p) + Len(q)
      /\ \A k \in 1 .. Len(p) : r[k] = p[k]
      /\ \A k \in Len(p) + 1 .. Len(p) + Len(q) : r[k] = q[k - Len(p)]
  OBVIOUS
<1> HIDE DEF r
<1>2. \A k \in DOMAIN p : p[k] \in ToSet(p)
  BY DEF ToSet
<1>3. \A k \in DOMAIN q : q[k] \in ToSet(q)
  BY DEF ToSet
<1> SUFFICES ASSUME NEW k \in 1 .. Len(p) + Len(q), NEW l \in 1 .. Len(p) + Len(q), k < l, r[k] \in Ends
             PROVE  r[l] \notin Starts
  BY <1>1 DEF NoStartAfterEnd, r
<1>4. CASE l <= Len(p)
  <2>1. k \in 1 .. Len(p) /\ l \in 1 .. Len(p)
    BY <1>1, <1>4
  <2> QED BY <1>1, <2>1 DEF NoStartAfterEnd
<1>5. CASE k <= Len(p) /\ l > Len(p)
  <2>1. k \in 1 .. Len(p) /\ l - Len(p) \in 1 .. Len(q) /\ l \in Len(p) + 1 .. Len(p) + Len(q)
    BY <1>1, <1>5
  <2>2. r[k] = p[k] /\ r[l] = q[l - Len(p)]
    BY <1>1, <2>1
  <2>3. r[k] \in ToSet(p)
    BY <1>1, <1>2, <2>1, <2>2
  <2>4. r[l] \in ToSet(q)
    BY <1>1, <1>3, <2>1, <2>2
  <2> QED BY <2>3, <2>4
<1>6. CASE k > Len(p)
  <2>1. /\ k - Len(p) \in 1 .. Len(q) /\ k \in Len(p) + 1 .. Len(p) + Len(q)
        /\ l - Len(p) \in 1 .. Len(q) /\ l \in Len(p) + 1 .. Len(p) + Len(q) /\ k - Len(p) < l - Len(p)
    BY <1>1, <1>6
  <2> QED BY <1>1, <2>1 DEF NoStartAfterEnd
<1> QED BY <1>1, <1>4, <1>5, <1>6

\* What a sequence in its order is after its first element, with one more at its end.
InOrder(q) == \A k, l \in DOMAIN q :
  /\ q[k] = "next" /\ q[l] = "next" => k = l
  /\ k < l /\ q[k] = "cEmpty" => q[l] \notin {"cError", "cEmpty"}
\* The rest of a queue in order.
LEMMA InOrderTail ==
  ASSUME NEW q \in Seq(Events), q # <<>>, InOrder(q)
  PROVE  InOrder(Tail(q))
<1>1. \A k \in DOMAIN Tail(q) : k \in Int /\ k + 1 \in DOMAIN q /\ Tail(q)[k] = q[k + 1]
  OBVIOUS
<1> DEFINE r == Tail(q)
<1> HIDE DEF r
<1>2. \A k, l \in DOMAIN r : k \in Int /\ l \in Int /\ (k < l => k + 1 < l + 1) /\ (k + 1 = l + 1 => k = l)
  BY <1>1 DEF r
<1>3. \A k \in DOMAIN r : k + 1 \in DOMAIN q /\ r[k] = q[k + 1]
  BY <1>1 DEF r
<1>4. InOrder(r)
  BY <1>2, <1>3 DEF InOrder
<1> QED BY <1>4 DEF r

\* A further "next" behind events without one.
LEMMA InOrderNext ==
  ASSUME NEW q \in Seq(Events), InOrder(q), "next" \notin ToSet(q)
  PROVE  InOrder(Append(q, "next"))
<1> DEFINE r == Append(q, "next")
<1>1. /\ Len(q) \in Nat /\ DOMAIN q = 1 .. Len(q) /\ DOMAIN r = 1 .. Len(q) + 1
      /\ \A k \in 1 .. Len(q) : r[k] = q[k]
      /\ r[Len(q) + 1] = "next"
  OBVIOUS
<1> HIDE DEF r
<1>2. \A k \in 1 .. Len(q) : q[k] # "next"
  BY <1>1 DEF ToSet
<1>3. \A k \in 1 .. Len(q) + 1 : k \in 1 .. Len(q) \/ k = Len(q) + 1
  BY <1>1
<1>4. InOrder(r)
  <2> SUFFICES ASSUME NEW k \in 1 .. Len(q) + 1, NEW l \in 1 .. Len(q) + 1
               PROVE  /\ r[k] = "next" /\ r[l] = "next" => k = l
                      /\ k < l /\ r[k] = "cEmpty" => r[l] \notin {"cError", "cEmpty"}
    BY <1>1 DEF InOrder
  <2> QED BY <1>1, <1>2, <1>3 DEF InOrder
<1> QED BY <1>4 DEF r

\* The command in play goes on.
LEMMA OnwardKeeps ==
  ASSUME AnswersInv, Controlled, NEW i \in Instances, i = s.inPlay, s.queue[i] # <<>>, NEW e, e = Head(s.queue[i]),
         Taken(Popped(i), i, e, ComesToEnd), Known(i, e), Onward(Popped(i), i, s', ComesToEnd),
         Draining, UNCHANGED <<irq, isr, task, own, finished>>
  PROVE  Controlled'
<1> DEFINE d == Popped(i)
           q == s.queue[i]
           r == Tail(q)
           x == s.inst[i]
           y == s'.inst[i]
           t == s'
<1>1. /\ Whole(d) /\ DOMAIN d.queue = Instances /\ d.queue[i] = r /\ r \in Seq(Events)
      /\ d.inst = s.inst /\ d.cDesc = s.cDesc /\ d.cRx = s.cRx /\ d.cThr = s.cThr /\ d.inPlay = i
      /\ d.txn = s.txn /\ d.go = s.go /\ d.ctlrOn = s.ctlrOn
      /\ e \in Events /\ ToSet(q) = {e} \cup ToSet(r)
      /\ \A j \in Instances \ {i} : d.queue[j] = s.queue[j]
  BY PoppedIs, FieldsAre DEF Controlled
<1>2. Queue = q /\ Play = x /\ i # None
  BY SmbusAssumption DEF Queue, Play
<1>3. /\ QueueInv /\ TaskInv /\ OthersInv /\ EngineInv /\ Ordered /\ WaitingInv /\ RunningInv
  BY <1>2 DEF Controlled
<1>4. q \in Seq(Events) /\ s.cDesc \in Seq(Descriptors) /\ q # <<>>
  BY <1>3 DEF QueueInv, EngineInv
<1>5. /\ Frame(d, i, t) /\ Worked(t, i)
      /\ y.state \in ControllerStates \cup {"AwaitingDone"}
      /\ y.state \notin ReadStates => x.state \notin ReadStates
      /\ \/ t.queue[i] = r /\ y.state \notin {"SendCommand", "SendReadStart"}
         \/ /\ t.queue[i] = Append(r, "next") /\ y.state \notin ReadStates \cup {"AwaitingDone"}
            /\ ToSet(r) \cap ControllerBits = {}
      /\ \E ds : Added(d, i, t, ComesToEnd, ds)
      /\ y.state = "SendCommand" => y.proto \in Reads \cup Calls \cup Writes
      /\ y.state = "WriteByte" => y.proto \in Calls \cup Writes
      /\ y.state \in ReadStates \cup {"SendReadStart"} => y.proto \in Reads \cup Calls \cup {"receive"}
      /\ y.state = "ReadBlockSize" => y.proto \in Blocks
    <2> HIDE DEF d
    <2> QED BY <1>1 DEF Onward, d
<1>6. PICK ds : Added(d, i, t, ComesToEnd, ds)
  BY <1>5
<1>7. /\ Whole(t) /\ t.txn = s.txn /\ t.inPlay = i /\ t.ctlrOn = s.ctlrOn /\ DOMAIN t.queue = Instances
      /\ \A j \in Instances \ {i} : t.inst[j] = s.inst[j] /\ t.queue[j] = s.queue[j]
      /\ y.proto = x.proto /\ y.pec = x.pec
  <2>1. Frame(d, i, t)
    BY <1>5
  <2> HIDE DEF d, t
  <2>2. /\ Whole(t) /\ t.txn = d.txn /\ t.inPlay = d.inPlay /\ t.ctlrOn = d.ctlrOn /\ DOMAIN t.queue = Instances
        /\ \A j \in Instances \ {i} : t.inst[j] = d.inst[j] /\ t.queue[j] = d.queue[j]
        /\ t.inst[i].proto = d.inst[i].proto /\ t.inst[i].pec = d.inst[i].pec
    BY <2>1 DEF Frame, Same
  <2>3. y.proto = x.proto /\ y.pec = x.pec
    BY <1>1, <2>2 DEF t
  <2> QED BY <1>1, <2>2, <2>3
<1>8. /\ ds \in Seq(Descriptors) /\ t.cDesc = s.cDesc \o ds /\ NoStartAfterEnd(ds)
      /\ ComesToEnd => ToSet(ds) \cap Starts = {} /\ t.go = s.go
      /\ y.state \notin ReadStates => ToSet(ds) \cap Fetches = {} /\ t.cRx = s.cRx
      /\ ComesToEnd \/ ToSet(ds) \cap Ends # {} => LastStates(y)
  BY <1>1, <1>6 DEF Added, NoStartAfterEnd
<1>9. /\ x.pec \in BOOLEAN /\ x.proto \in OwnProtos
      /\ "next" \notin ToSet(r) /\ "pec" \notin ToSet(r)
      /\ x.state \notin ReadStates => "cData" \notin Raised /\ s.cRx = <<>> /\ ToSet(s.cDesc) \cap Fetches = {}
      /\ "cDone" \in Raised => s.txn \in finished
      /\ task.pc \notin {"fill", "raise"}
      /\ e \in ControllerBits => s.ctlrOn
  BY DEF Known
<1>10. e \in {"next"} \cup ControllerBits /\ (e = "next" => ToSet(r) \cap ControllerBits = {})
  BY <1>1 DEF Taken
<1>11. /\ Queue' = t.queue[i] /\ Play' = y /\ Queue' \in Seq(Events)
       /\ ToSet(Queue') \subseteq ToSet(r) \cup {"next"}
       /\ "next" \in ToSet(Queue') => y.state \notin ReadStates \cup {"AwaitingDone"} /\ ToSet(Queue') \cap ControllerBits = {}
       /\ y.state \in {"SendCommand", "SendReadStart"} => "next" \in ToSet(Queue')
       /\ InOrder(Queue')
  <2>1. Queue' = t.queue[i] /\ Play' = y
    BY <1>7 DEF Queue, Play
  <2>2. InOrder(r)
    BY <1>2, <1>3, <1>4, InOrderTail DEF Ordered, InOrder
  <2>3. Append(r, "next") \in Seq(Events) /\ ToSet(Append(r, "next")) = ToSet(r) \cup {"next"} /\ "next" \notin ControllerBits
    <3>1. "next" \in Events /\ "next" \notin ControllerBits /\ r \in Seq(Events)
      BY <1>1, DescriptorsAre
    <3> HIDE DEF r
    <3> QED BY <3>1, ElementsOfAppended
  <2>4. InOrder(Append(r, "next"))
    BY <1>1, <1>9, <2>2, InOrderNext
  <2>5. CASE t.queue[i] = r /\ y.state \notin {"SendCommand", "SendReadStart"}
    <3> HIDE DEF r, y, t
    <3> QED BY <1>1, <1>9, <2>1, <2>2, <2>5
  <2>6. CASE t.queue[i] = Append(r, "next") /\ y.state \notin ReadStates \cup {"AwaitingDone"}
             /\ ToSet(r) \cap ControllerBits = {}
    <3> HIDE DEF r, y, t
    <3> QED BY <2>1, <2>3, <2>4, <2>6
  <2> QED BY <1>5, <2>5, <2>6
<1>12. /\ t.cDesc \in Seq(Descriptors) /\ ToSet(t.cDesc) = ToSet(s.cDesc) \cup ToSet(ds) /\ NoStartAfterEnd(t.cDesc)
  <2>1. NoStartAfterEnd(s.cDesc)
    BY <1>3 DEF EngineInv, NoStartAfterEnd
  <2>2. ToSet(s.cDesc) \cap Ends # {} => ToSet(ds) \cap Starts = {}
    BY <1>8 DEF ComesToEnd
  <2> QED BY <1>4, <1>8, <2>1, <2>2, JoinedOrder, ElementsOfJoined
<1>13. Raised' \subseteq Raised \cup {"next"} /\ (irq \cup isr.vec) \subseteq Raised /\ irq' = irq /\ isr' = isr /\ own' = own /\ task' = task
  BY <1>1, <1>2, <1>11 DEF Raised
<1>14. "cDone" \in Raised' => "cDone" \in Raised
  BY <1>13
<1>15. "cData" \in Raised' => "cData" \in Raised
  BY <1>13
<1> HIDE DEF d, t, y, x, q, r
<1>16. QueueInv'
  <2>1. Draining'
    BY <1>13 DEF Draining
  <2>2. \A j \in Instances : t.queue[j] \in Seq(Events)
    BY <1>3, <1>7, <1>11 DEF QueueInv
  <2> QED BY <1>3, <1>7, <1>13, <2>1, <2>2 DEF QueueInv, t
<1>17. TaskInv'
  BY <1>3, <1>7, <1>13 DEF TaskInv, t
<1>18. OthersInv'
  <2>1. Clean(t.inst[i])
    BY <1>5, DescriptorsAre DEF Clean, y, t
  <2> QED BY <1>3, <1>7, <2>1 DEF OthersInv, t
<1>19. EngineInv'
  <2>1. t.cRx \in Seq(Received) /\ t.cThr \in Nat \ {0}
    BY <1>5 DEF Worked
  <2>2. "cDone" \in irq \cup isr.vec => ComesToEnd
    BY <1>13 DEF ComesToEnd
  <2>3. "cDone" \in irq \cup isr.vec => own.phase = "idle" /\ ~ t.go /\ ToSet(t.cDesc) \cap Starts = {}
    BY <1>3, <1>8, <1>12, <2>2 DEF EngineInv
  <2>4. ~ s.ctlrOn => isr.vec \cap ControllerBits = {} /\ ToSet(Queue') \cap ControllerBits = {}
    <3>1. ~ s.ctlrOn => e = "next"
      BY <1>9, <1>10
    <3> QED BY <1>3, <1>10, <1>11, <3>1, DescriptorsAre DEF EngineInv
  <2> QED BY <1>2, <1>3, <1>7, <1>12, <1>13, <2>1, <2>3, <2>4 DEF EngineInv, NoStartAfterEnd, t
<1>20. Ordered'
  BY <1>11 DEF Ordered, InOrder
<1>21. ~ Waiting'
  <2>1. y.state \notin ControllerStates => y.state = "AwaitingDone"
    BY <1>5
  <2> QED BY <1>9, <1>11, <1>13, <2>1 DEF Waiting
<1>22. RunningInv'
  <2>1. "pec" \notin ToSet(Queue')
    BY <1>9, <1>11
  <2>2. y.expect \in Int /\ y.descs \in Int /\ y.size \in Int /\ y.buf \in Seq(Received)
    BY <1>5 DEF Worked, y, t
  <2>3. y.pec \in BOOLEAN /\ y.proto \in OwnProtos
    BY <1>7, <1>9
  <2>4. y.state \notin ReadStates => "cData" \notin Raised' /\ t.cRx = <<>> /\ ToSet(t.cDesc) \cap Fetches = {}
    BY <1>5, <1>8, <1>9, <1>12, <1>15
  <2>5. "cDone" \in Raised' \/ ToSet(t.cDesc) \cap Ends # {} => LastStates(y)
    BY <1>8, <1>12, <1>14 DEF ComesToEnd
  <2>6. "cDone" \in Raised' => s'.txn \in finished'
    BY <1>7, <1>9, <1>14 DEF t
  <2> QED BY <1>5, <1>11, <2>1, <2>2, <2>3, <2>4, <2>5, <2>6 DEF RunningInv, LastStates, t
<1> QED BY <1>16, <1>17, <1>18, <1>19, <1>20, <1>21, <1>22 DEF Controlled, WaitingInv

\* The command in play ends.
LEMMA EndedKeeps ==
  ASSUME AnswersInv, Controlled, NEW i \in Instances, i = s.inPlay, s.queue[i] # <<>>, NEW e \in ControllerBits,
         Known(i, e), Ended(Popped(i), i, s', e),
         Draining, UNCHANGED <<irq, isr, task, own, finished>>
  PROVE  Controlled'
<1> DEFINE d == Popped(i)
           q == s.queue[i]
           r == Tail(q)
           t == s'
<1>1. /\ DOMAIN d.queue = Instances /\ d.queue[i] = r /\ r \in Seq(Events)
      /\ d.inst = s.inst /\ d.cThr = s.cThr /\ d.go = s.go /\ d.ctlrOn = s.ctlrOn
      /\ \A j \in Instances \ {i} : d.queue[j] = s.queue[j]
  BY PoppedIs, FieldsAre DEF Controlled
<1>2. /\ QueueInv /\ TaskInv /\ OthersInv /\ EngineInv /\ i # None
  BY SmbusAssumption DEF Controlled
<1>3. /\ t.inPlay = None /\ t.cDesc = <<>> /\ t.cRx = <<>>
      /\ t.cThr = s.cThr /\ t.go = s.go /\ t.ctlrOn = s.ctlrOn /\ t.queue = d.queue
      /\ \A j \in Instances \ {i} : t.inst[j] = s.inst[j]
      /\ t.inst[i].state = "Initial" /\ Clean(t.inst[i])
  <2> HIDE DEF d, t
  <2>1. Ended(d, i, t, e)
    BY DEF d, t
  <2> QED BY <1>1, <2>1 DEF Ended
<1>4. "next" \notin ToSet(r) /\ task.pc \notin {"fill", "raise"} /\ s.ctlrOn
  BY DEF Known
<1>5. irq' = irq /\ isr' = isr /\ own' = own /\ task' = task
  OBVIOUS
<1> HIDE DEF d, q, r, t
<1>6. QueueInv'
  <2>1. Draining'
    BY <1>5 DEF Draining
  <2>2. \A j \in Instances : t.queue[j] \in Seq(Events)
    BY <1>1, <1>2, <1>3 DEF QueueInv
  <2> QED BY <1>1, <1>2, <1>3, <1>5, <2>1, <2>2 DEF QueueInv, t
<1>7. TaskInv'
  BY <1>2, <1>3, <1>4, <1>5 DEF TaskInv, t
<1>8. OthersInv'
  <2>1. "Initial" \notin ControllerStates
    BY DescriptorsAre
  <2> QED BY <1>1, <1>2, <1>3, <1>4, <2>1 DEF OthersInv, t
<1>9. EngineInv'
  <2>1. <<>> \in Seq(Descriptors) /\ <<>> \in Seq(Received) /\ ToSet(<<>>) = {} /\ DOMAIN <<>> = {}
    BY DEF ToSet
  <2> QED BY <1>2, <1>3, <1>4, <1>5, <2>1 DEF EngineInv, t
<1> QED BY <1>3, <1>6, <1>7, <1>8, <1>9 DEF Controlled, WaitingInv, RunningInv, t

\* An instance that is not in play handles its event.
LEMMA AsideKeeps ==
  ASSUME AnswersInv, Controlled, NEW i \in Instances, i # s.inPlay, s.queue[i] # <<>>, Aside(Popped(i), i, s'),
         Draining, UNCHANGED <<irq, isr, task, own, finished>>
  PROVE  Controlled'
<1> DEFINE d == Popped(i)
           t == s'
<1>1. /\ DOMAIN d.queue = Instances
      /\ d.inst = s.inst /\ d.cDesc = s.cDesc /\ d.cRx = s.cRx /\ d.cThr = s.cThr /\ d.go = s.go /\ d.ctlrOn = s.ctlrOn
      /\ d.inPlay = s.inPlay /\ d.txn = s.txn
      /\ \A j \in Instances \ {i} : d.queue[j] = s.queue[j]
  BY PoppedIs, FieldsAre DEF Controlled
<1>2. /\ QueueInv /\ TaskInv /\ OthersInv /\ EngineInv /\ WaitingInv /\ RunningInv /\ (s.inPlay # None => Ordered)
  BY DEF Controlled
<1>3. /\ t.inPlay = s.inPlay /\ t.txn = s.txn /\ t.cDesc = s.cDesc /\ t.cRx = s.cRx
      /\ t.cThr = s.cThr /\ t.go = s.go /\ t.ctlrOn = s.ctlrOn /\ DOMAIN t.queue = Instances
      /\ t.queue[i] \in NoNext
      /\ \A j \in Instances \ {i} : t.inst[j] = s.inst[j] /\ t.queue[j] = s.queue[j]
      /\ t.inst[i].state \notin ControllerStates /\ Clean(t.inst[i])
  <2> HIDE DEF d, t
  <2>1. Aside(d, i, t)
    BY DEF d, t
  <2> QED BY <1>1, <2>1 DEF Aside, Same
<1>4. irq' = irq /\ isr' = isr /\ own' = own /\ task' = task /\ finished' = finished
  OBVIOUS
<1>5. t.queue[i] \in Seq(Events) /\ "next" \notin ToSet(t.queue[i])
  BY <1>3 DEF NoNext, ToSet
<1> HIDE DEF d, t
<1>6. QueueInv'
  <2>1. Draining'
    BY <1>4 DEF Draining
  <2>2. \A j \in Instances : t.queue[j] \in Seq(Events)
    BY <1>2, <1>3, <1>5 DEF QueueInv
  <2> QED BY <1>2, <1>3, <1>4, <2>1, <2>2 DEF QueueInv, t
<1>7. TaskInv'
  BY <1>2, <1>3, <1>4 DEF TaskInv, t
<1>8. OthersInv'
  BY <1>2, <1>3, <1>5 DEF OthersInv, t
<1>9. s.inPlay # None => Queue' = Queue /\ Play' = Play
  BY <1>2, <1>3 DEF Queue, Play, TaskInv, t
<1>10. EngineInv'
  BY <1>2, <1>3, <1>4, <1>9 DEF EngineInv, Quiet, t
<1>11. WaitingInv'
  BY <1>2, <1>3, <1>4, <1>9 DEF WaitingInv, Waiting, Quiet, t
<1>12. RunningInv'
  BY <1>2, <1>3, <1>4, <1>9 DEF RunningInv, Waiting, Raised, t
<1>13. s.inPlay # None => Ordered'
  BY <1>2, <1>9 DEF Ordered
<1> QED BY <1>3, <1>6, <1>7, <1>8, <1>10, <1>11, <1>12, <1>13 DEF Controlled, t

\* Commands are met by transfers, and no command is met no more.
LEMMA OnceDisturbed ==
  ASSUME collided \subseteq collided', NEW k, ~ Undisturbed(k)
  PROVE  ~ Undisturbed(k)'
BY DEF Undisturbed

\* An event is handled.
LEMMA HandleControlled ==
  ASSUME AnswersInv, ControlInv, HandleEvent, Undisturbed(s.txn)'
  PROVE  /\ Controlled'
         /\ \/ Same(s, s')
            \/ /\ s'.inPlay = None /\ Whole(s') /\ s'.txn = s.txn
               /\ \E r \in Results : /\ s'.answers = Append(s.answers, [id |-> s.txn, result |-> r])
                                     /\ r = "ok" => s.txn \in finished
<1>1. PICK i \in Instances :
        /\ Draining /\ s.queue[i] # <<>>
        /\ LET e == Head(s.queue[i]) IN
           /\ s' = Fsm([s EXCEPT !.queue[i] = Tail(@)], i, e)
           /\ collided' =
                IF /\ i = s.inPlay \/ (i = task.inst /\ task.pc # "claim")
                   /\ \/ e \in TargetBits
                      \/ e = "next" /\ s.inst[i].state \notin {"Initial"} \cup ControllerStates
                THEN collided \cup {<<"own", s.txn>>, <<"remote", transfers>>} ELSE collided
        /\ UNCHANGED <<irq, addr, isr, task, asked, hwVars, unseen>>
  BY DEF HandleEvent
<1> DEFINE e == Head(s.queue[i])
           d == Popped(i)
<1>2. s' = Fsm(d, i, e) /\ UNCHANGED <<irq, isr, task, own, finished>>
  BY <1>1 DEF Popped, hwVars
<1>3. Same(s, s') \/ Over(s, i, s')
  <2>0. Same(s, d) /\ Whole(d)
    BY <1>1 DEF AnswersInv, Popped, Same, Whole, Fields
  <2> HIDE DEF d
  <2>1. Handled(d, i, s')
    BY <1>2, <2>0, FsmHandled
  <2> QED BY <2>0, <2>1 DEF Handled, Same, Over
<1>4. collided \subseteq collided' /\ s'.txn = s.txn
  BY <1>1, <1>3 DEF Same, Over
<1>5. Undisturbed(s.txn) /\ (<<"own", s.txn>> \notin collided' \/ s.txn = 0)
  <2>1. \A k \in 1 .. s.txn : <<"own", k>> \notin collided'
    BY <1>4 DEF Undisturbed
  <2>2. s.txn \in Nat
    BY DEF AnswersInv
  <2>3. Undisturbed(s.txn)
    BY <1>4, <2>1 DEF Undisturbed
  <2> QED BY <2>1, <2>2, <2>3
<1>6. Controlled
  <2>1. \A k \in 1 .. s.txn : <<"own", k>> \notin collided'
    BY <1>4 DEF Undisturbed
  <2>3. Undisturbed(s.txn)
    BY <1>4, <2>1 DEF Undisturbed
  <2> QED BY <2>3 DEF ControlInv
<1>7. /\ QueueInv /\ e \in Events /\ e \in ToSet(s.queue[i]) /\ ToSet(s.queue[i]) = {e} \cup ToSet(Tail(s.queue[i]))
      /\ Whole(d) /\ Same(s, d) /\ DOMAIN d.queue = Instances /\ d.queue[i] = Tail(s.queue[i]) /\ Tail(s.queue[i]) \in Seq(Events)
      /\ d.inst = s.inst /\ d.inPlay = s.inPlay
  BY <1>1, <1>6, PoppedIs, FieldsAre DEF Controlled
<1>8. CASE i = s.inPlay
  <2>1. s.txn # 0 /\ i # None
    BY <1>6, <1>8, SmbusAssumption DEF Controlled, TaskInv
  <2>2. e \notin TargetBits /\ (e = "next" => s.inst[i].state \in {"Initial"} \cup ControllerStates)
    BY <1>1, <1>5, <1>8, <2>1
  <2> HIDE DEF e
  <2>3. e = Head(s.queue[i])
    BY DEF e
  <2>4. Taken(d, i, e, ComesToEnd) /\ Ready(d, i, e) /\ Known(i, e)
    BY <1>1, <1>6, <1>8, <2>2, <2>3, PlayIsReady
  <2> HIDE DEF d
  <2>5. Onward(d, i, s', ComesToEnd) \/ (e # "next" /\ Ended(d, i, s', e))
    BY <1>2, <2>4, FsmInPlay
  <2>6. CASE Onward(d, i, s', ComesToEnd)
    <3>1. Controlled'
      BY <1>1, <1>2, <1>6, <1>8, <2>3, <2>4, <2>6, OnwardKeeps DEF d
    <3>2. Same(s, s')
      BY <1>7, <2>6 DEF Onward, Frame, Same
    <3> QED BY <3>1, <3>2
  <2>7. CASE e # "next" /\ Ended(d, i, s', e)
    <3>1. e \in ControllerBits
      BY <2>4, <2>7 DEF Taken
    <3>2. Controlled'
      BY <1>1, <1>2, <1>6, <1>8, <2>4, <2>7, <3>1, EndedKeeps DEF d
    <3>3. e = "cDone" => s.txn \in finished
      <4>1. ToSet(s.queue[i]) \subseteq Raised
        BY <1>8 DEF Raised, Queue
      <4> QED BY <1>7, <2>4, <4>1 DEF Known, e
    <3> QED BY <1>7, <2>7, <3>2, <3>3 DEF Ended, Same
  <2> QED BY <2>5, <2>6, <2>7
<1>9. CASE i # s.inPlay
  <2>1. s.inst[i].state \notin ControllerStates /\ "next" \notin ToSet(s.queue[i])
    BY <1>6, <1>9 DEF Controlled, OthersInv
  <2>2. Tail(s.queue[i]) \in NoNext
    <3> DEFINE r == Tail(s.queue[i])
    <3>1. r \in Seq(Events) /\ "next" \notin ToSet(r)
      BY <1>7, <2>1
    <3> HIDE DEF r
    <3>2. r \in Seq(Events \ {"next"})
      BY <3>1 DEF ToSet
    <3> QED BY <3>2 DEF NoNext, r
  <2>3. OutOfPlay(d, i) /\ d.inst[i].state \notin ControllerStates /\ e # "next"
    BY <1>7, <1>9, <2>1, <2>2 DEF OutOfPlay
  <2> HIDE DEF d, e
  <2>4. Aside(d, i, s')
    BY <1>2, <2>3, FsmAside
  <2>5. Controlled'
    BY <1>1, <1>2, <1>6, <1>9, <2>4, AsideKeeps DEF d
  <2>6. Same(s, s')
    BY <1>7, <2>4 DEF Aside, Same
  <2> QED BY <2>5, <2>6
<1> QED BY <1>8, <1>9

-----------------------------------------------------------------------------
(* The interrupt handler queues the events of its bits.                     *)

\* The level-triggered bits of the controller.
LEMMA LevelsAre ==
  /\ Levels \subseteq {"tData", "tEmpty", "cData", "cEmpty"}
  /\ "cData" \in Levels => Len(s.cRx) >= s.cThr
  /\ "cEmpty" \in Levels <=> own.phase \in {"write", "read"} /\ s.cDesc = <<>>
<1>1. "cData" \in Levels <=> Len(s.cRx) >= s.cThr
  BY DEF Levels
<1>2. "cEmpty" \in Levels <=> own.phase \in {"write", "read"} /\ s.cDesc = <<>>
  BY DEF Levels
<1> QED BY <1>1, <1>2 DEF Levels

\* Events behind others.
LEMMA InOrderJoined ==
  ASSUME NEW p \in Seq(Events), NEW q \in Seq(Events), InOrder(p), InOrder(q),
         "next" \in ToSet(p) => "next" \notin ToSet(q),
         "cEmpty" \in ToSet(p) => ToSet(q) \cap {"cError", "cEmpty"} = {}
  PROVE  InOrder(p \o q)
<1> DEFINE r == p \o q
<1>1. /\ Len(p) \in Nat /\ Len(q) \in Nat
      /\ DOMAIN p = 1 .. Len(p) /\ DOMAIN q = 1 .. Len(q) /\ DOMAIN r = 1 .. Len(p) + Len(q)
      /\ \A k \in 1 .. Len(p) : r[k] = p[k]
      /\ \A k \in Len(p) + 1 .. Len(p) + Len(q) : r[k] = q[k - Len(p)]
  OBVIOUS
<1> HIDE DEF r
<1>2. \A k \in DOMAIN p : p[k] \in ToSet(p)
  BY DEF ToSet
<1>3. \A k \in DOMAIN q : q[k] \in ToSet(q)
  BY DEF ToSet
<1> SUFFICES ASSUME NEW k \in 1 .. Len(p) + Len(q), NEW l \in 1 .. Len(p) + Len(q), k < l
             PROVE  /\ ~ (r[k] = "next" /\ r[l] = "next")
                    /\ r[k] = "cEmpty" => r[l] \notin {"cError", "cEmpty"}
  <2>1. ASSUME \A k, l \in 1 .. Len(p) + Len(q) : k < l =>
                 /\ ~ (r[k] = "next" /\ r[l] = "next")
                 /\ r[k] = "cEmpty" => r[l] \notin {"cError", "cEmpty"}
        PROVE  InOrder(r)
    <3>1. \A k, l \in 1 .. Len(p) + Len(q) : k < l \/ l < k \/ k = l
      BY <1>1
    <3> QED BY <1>1, <2>1, <3>1 DEF InOrder
  <2> QED BY <2>1 DEF r
<1>4. CASE l <= Len(p)
  <2>1. k \in 1 .. Len(p) /\ l \in 1 .. Len(p) /\ k # l
    BY <1>1, <1>4
  <2> QED BY <1>1, <2>1 DEF InOrder
<1>5. CASE k <= Len(p) /\ l > Len(p)
  <2>1. k \in 1 .. Len(p) /\ l - Len(p) \in 1 .. Len(q) /\ l \in Len(p) + 1 .. Len(p) + Len(q)
    BY <1>1, <1>5
  <2>2. r[k] = p[k] /\ r[l] = q[l - Len(p)]
    BY <1>1, <2>1
  <2>3. r[k] \in ToSet(p)
    BY <1>1, <1>2, <2>1, <2>2
  <2>4. r[l] \in ToSet(q)
    BY <1>1, <1>3, <2>1, <2>2
  <2> QED BY <2>3, <2>4
<1>6. CASE k > Len(p)
  <2>1. /\ k - Len(p) \in 1 .. Len(q) /\ k \in Len(p) + 1 .. Len(p) + Len(q)
        /\ l - Len(p) \in 1 .. Len(q) /\ l \in Len(p) + 1 .. Len(p) + Len(q) /\ k - Len(p) < l - Len(p) /\ k - Len(p) # l - Len(p)
    BY <1>1, <1>6
  <2>2. r[k] = q[k - Len(p)] /\ r[l] = q[l - Len(p)]
    BY <1>1, <2>1
  <2>3. PICK a \in DOMAIN q, b \in DOMAIN q : a = k - Len(p) /\ b = l - Len(p)
    BY <1>1, <2>1
  <2>4. a < b /\ a # b /\ r[k] = q[a] /\ r[l] = q[b]
    BY <2>1, <2>2, <2>3
  <2> QED BY <2>4 DEF InOrder
<1> QED BY <1>1, <1>4, <1>5, <1>6

\* The event of one bit.
LEMMA ToldIs ==
  ASSUME NEW vec, NEW S, NEW e \in S
  PROVE  Told(vec, e) \in Seq(S) /\ ToSet(Told(vec, e)) = {e} \cap vec /\ (e # "next" => InOrder(Told(vec, e)))
<1>1. CASE e \in vec
  <2>1. <<e>> \in Seq(S) /\ DOMAIN <<e>> = {1} /\ <<e>>[1] = e
    OBVIOUS
  <2> QED BY <1>1, <2>1 DEF Told, ToSet, InOrder
<1>2. CASE e \notin vec
  <2>1. <<>> \in Seq(S) /\ DOMAIN <<>> = {}
    OBVIOUS
  <2> QED BY <1>2, <2>1 DEF Told, ToSet, InOrder
<1> QED BY <1>1, <1>2

\* The events of the target are events of the target, and harmless to the order.
LEMMA TargetEventsAre ==
  ASSUME NEW vec
  PROVE  /\ TargetEvents(vec) \in Seq(Events) /\ ToSet(TargetEvents(vec)) \subseteq TargetBits
         /\ InOrder(TargetEvents(vec))
<1>1. \A e \in TargetBits : Told(vec, e) \in Seq(TargetBits)
  BY ToldIs
<1>2. TargetEvents(vec) \in Seq(TargetBits)
  <2> DEFINE T(e) == Told(vec, e)
  <2>1. T("tError") \in Seq(TargetBits) /\ T("tRead") \in Seq(TargetBits) /\ T("tWrite") \in Seq(TargetBits)
        /\ T("tData") \in Seq(TargetBits) /\ T("tDone") \in Seq(TargetBits) /\ T("tEmpty") \in Seq(TargetBits)
    BY <1>1 DEF TargetBits
  <2> HIDE DEF T
  <2>2. T("tError") \o T("tRead") \o T("tWrite") \o T("tData") \o T("tDone") \o T("tEmpty") \in Seq(TargetBits)
    BY <2>1
  <2> QED BY <2>2 DEF T, TargetEvents
<1> DEFINE q == TargetEvents(vec)
<1> HIDE DEF q
<1>3. q \in Seq(TargetBits) /\ TargetBits \subseteq Events /\ "next" \notin TargetBits /\ "cEmpty" \notin TargetBits
  BY <1>2 DEF q, TargetBits, Events
<1>4. q \in Seq(Events) /\ \A k \in DOMAIN q : q[k] \in TargetBits
  BY <1>3
<1>5. ToSet(q) \subseteq TargetBits
  BY <1>4 DEF ToSet
<1>6. InOrder(q)
  BY <1>3, <1>4 DEF InOrder
<1> QED BY <1>4, <1>5, <1>6 DEF q

\* The events of the controller are those of its bits, in order.
LEMMA ControllerEventsAre ==
  ASSUME NEW vec
  PROVE  /\ ControllerEvents(vec) \in Seq(Events) /\ ToSet(ControllerEvents(vec)) = vec \cap ControllerBits
         /\ InOrder(ControllerEvents(vec))
<1> DEFINE a == Told(vec, "cError")
           b == Told(vec, "cData")
           c == Told(vec, "cEmpty")
           d == Told(vec, "cDone")
<1>1. /\ a \in Seq(Events) /\ ToSet(a) = {"cError"} \cap vec /\ InOrder(a)
      /\ b \in Seq(Events) /\ ToSet(b) = {"cData"} \cap vec /\ InOrder(b)
      /\ c \in Seq(Events) /\ ToSet(c) = {"cEmpty"} \cap vec /\ InOrder(c)
      /\ d \in Seq(Events) /\ ToSet(d) = {"cDone"} \cap vec /\ InOrder(d)
  <2>1. \A e \in ControllerBits : e \in Events /\ e # "next"
    BY DEF Events, ControllerBits
  <2> QED BY <2>1, ToldIs DEF ControllerBits
<1> HIDE DEF a, b, c, d
<1>2. a \o b \in Seq(Events) /\ ToSet(a \o b) = {"cError", "cData"} \cap vec /\ InOrder(a \o b)
  <2>1. a \o b \in Seq(Events) /\ ToSet(a \o b) = {"cError", "cData"} \cap vec
    BY <1>1, ElementsOfJoined
  <2>2. InOrder(a \o b)
    BY <1>1, InOrderJoined
  <2> QED BY <2>1, <2>2
<1> DEFINE ab == a \o b
<1> HIDE DEF ab
<1>3. ab \o c \in Seq(Events) /\ ToSet(ab \o c) = {"cError", "cData", "cEmpty"} \cap vec /\ InOrder(ab \o c)
  <2>0. ab \in Seq(Events) /\ ToSet(ab) = {"cError", "cData"} \cap vec /\ InOrder(ab)
    BY <1>2 DEF ab
  <2>1. ab \o c \in Seq(Events) /\ ToSet(ab \o c) = {"cError", "cData", "cEmpty"} \cap vec
    BY <1>1, <2>0, ElementsOfJoined
  <2>2. InOrder(ab \o c)
    BY <1>1, <2>0, InOrderJoined
  <2> QED BY <2>1, <2>2
<1> DEFINE abc == ab \o c
<1> HIDE DEF abc
<1>4. abc \o d \in Seq(Events) /\ ToSet(abc \o d) = {"cError", "cData", "cEmpty", "cDone"} \cap vec /\ InOrder(abc \o d)
  <2>0. abc \in Seq(Events) /\ ToSet(abc) = {"cError", "cData", "cEmpty"} \cap vec /\ InOrder(abc)
    BY <1>3 DEF abc
  <2>1. abc \o d \in Seq(Events) /\ ToSet(abc \o d) = {"cError", "cData", "cEmpty", "cDone"} \cap vec
    BY <1>1, <2>0, ElementsOfJoined
  <2>2. InOrder(abc \o d)
    BY <1>1, <2>0, InOrderJoined
  <2> QED BY <2>1, <2>2
<1>5. ControllerEvents(vec) = abc \o d
  BY DEF ControllerEvents, a, b, c, d, ab, abc
<1> HIDE DEF abc, d
<1> QED BY <1>4, <1>5 DEF ControllerBits

\* Bits of the target alone.
LEMMA EventsApart ==
  /\ TargetBits \subseteq Events /\ ControllerBits \subseteq Events /\ TargetBits \cap ControllerBits = {}
  /\ "next" \notin TargetBits /\ "pec" \notin TargetBits
  /\ "cData" \in ControllerBits /\ "cDone" \in ControllerBits /\ "cError" \in ControllerBits /\ "cEmpty" \in ControllerBits
  /\ ControllerBits = {"cData", "cDone", "cError", "cEmpty"}
BY DEF TargetBits, ControllerBits, Events

\* An interrupt is taken.
LEMMA IsrEnterKeeps ==
  ASSUME AnswersInv, Controlled, IsrEnter
  PROVE  Controlled'
<1> DEFINE vec == Pending \cap Enabled
           t == s'
           v == isr'.vec
<1>1. /\ QueueInv /\ TaskInv /\ OthersInv /\ EngineInv /\ WaitingInv /\ RunningInv /\ (s.inPlay # None => Ordered)
  BY DEF Controlled
<1>2. /\ isr.pc = "idle" /\ task.pc # "drain" /\ isr'.vec = vec /\ isr'.all = Pending
      /\ isr'.pc = "target" /\ DOMAIN isr' = DOMAIN IdleIsr
      /\ irq' = irq /\ own' = own /\ task' = task /\ finished' = finished
  BY DEF IsrEnter, hwVars, IdleIsr
<1>3. /\ t.inst = s.inst /\ t.inPlay = s.inPlay /\ t.txn = s.txn /\ t.cDesc = s.cDesc /\ t.cRx = s.cRx
      /\ t.cThr = s.cThr /\ t.go = s.go /\ t.ctlrOn = s.ctlrOn /\ DOMAIN t.queue = Instances
      /\ \A j \in Instances : t.queue[j] = s.queue[j] \/ t.queue[j] = s.queue[j] \o TargetEvents(vec)
      /\ ~ isr'.drain => \A j \in Instances : t.queue[j] = s.queue[j]
  <2>0. DOMAIN s = Fields /\ DOMAIN s.queue = Instances
    BY <1>1 DEF AnswersInv, Whole, QueueInv
  <2>1. \/ s' = s
        \/ \E x : s' = [[s EXCEPT !.active = x] EXCEPT !.tRx = <<>>]
        \/ isr'.drain /\ \E x : s' = Queued([s EXCEPT !.active = x], x, TargetEvents(vec))
    <3> DEFINE target == IF vec \cap {"tRead", "tWrite"} # {} THEN addr ELSE s.active
               a == [s EXCEPT !.active = target]
    <3>1. \/ s' = s
          \/ s' = [a EXCEPT !.tRx = <<>>]
          \/ isr'.drain /\ s' = Queued(a, target, TargetEvents(vec))
      <4>1. \/ s' = s
            \/ /\ isr' = [pc |-> "target", vec |-> vec, all |-> Pending, drain |-> target # None, who |-> target]
               /\ s' = IF target = None THEN [a EXCEPT !.tRx = <<>>] ELSE Queued(a, target, TargetEvents(vec))
        <5>1. CASE vec \cap TargetBits = {}
          BY <5>1 DEF IsrEnter
        <5>2. CASE vec \cap TargetBits # {}
          <6>1. isr' = [pc |-> "target", vec |-> vec, all |-> Pending, drain |-> target # None, who |-> target]
            BY <5>2 DEF IsrEnter
          <6>2. s' = IF target = None THEN [a EXCEPT !.tRx = <<>>] ELSE Queued(a, target, TargetEvents(vec))
            BY <5>2 DEF IsrEnter
          <6> QED BY <6>1, <6>2
        <5> QED BY <5>1, <5>2
      <4> HIDE DEF vec, target
      <4>2. CASE s' = s
        BY <4>2
      <4>3. CASE /\ isr' = [pc |-> "target", vec |-> vec, all |-> Pending, drain |-> target # None, who |-> target]
                 /\ s' = IF target = None THEN [a EXCEPT !.tRx = <<>>] ELSE Queued(a, target, TargetEvents(vec))
        <5> HIDE DEF a
        <5>1. CASE target = None
          BY <4>3, <5>1
        <5>2. CASE target # None
          <6>1. isr'.drain = (target # None)
            BY <4>3, Zenon
          <6>2. isr'.drain
            BY <5>2, <6>1, Zenon
          <6>3. s' = Queued(a, target, TargetEvents(vec))
            BY <4>3, <5>2
          <6> QED BY <6>2, <6>3
        <5> QED BY <5>1, <5>2
      <4> QED BY <4>1, <4>2, <4>3
    <3> QED BY <3>1
  <2>2. CASE s' = s
    BY <2>0, <2>2
  <2>3. CASE \E x : s' = [[s EXCEPT !.active = x] EXCEPT !.tRx = <<>>]
    BY <2>0, <2>3 DEF Fields
  <2>4. CASE isr'.drain /\ \E x : s' = Queued([s EXCEPT !.active = x], x, TargetEvents(vec))
    <3>1. PICK x : s' = Queued([s EXCEPT !.active = x], x, TargetEvents(vec))
      BY <2>4
    <3> HIDE DEF vec
    <3> QED BY <2>0, <2>4, <3>1 DEF Queued, Fields
  <2> QED BY <2>1, <2>2, <2>3, <2>4
<1>4. \A j \in Instances :
        /\ t.queue[j] \in Seq(Events) /\ ToSet(s.queue[j]) \subseteq ToSet(t.queue[j])
        /\ ToSet(t.queue[j]) \subseteq ToSet(s.queue[j]) \cup TargetBits
        /\ InOrder(s.queue[j]) => InOrder(t.queue[j])
  <2> SUFFICES ASSUME NEW j \in Instances
               PROVE  /\ t.queue[j] \in Seq(Events) /\ ToSet(s.queue[j]) \subseteq ToSet(t.queue[j])
                      /\ ToSet(t.queue[j]) \subseteq ToSet(s.queue[j]) \cup TargetBits
                      /\ InOrder(s.queue[j]) => InOrder(t.queue[j])
    OBVIOUS
  <2> DEFINE p == s.queue[j]
             q == TargetEvents(vec)
  <2>1. p \in Seq(Events) /\ (p = <<>> \/ p = <<"next">>)
    BY <1>1, <1>2 DEF QueueInv, Draining
  <2>2. q \in Seq(Events) /\ ToSet(q) \subseteq TargetBits /\ InOrder(q)
    BY TargetEventsAre
  <2>3. t.queue[j] = p \/ t.queue[j] = p \o q
    BY <1>3
  <2>4. "next" \notin ToSet(q) /\ "cEmpty" \notin ToSet(p)
    <3>1. ToSet(<<>>) = {} /\ ToSet(<<"next">>) = {"next"}
      BY DEF ToSet
    <3> HIDE DEF p, q
    <3> QED BY <2>1, <2>2, <3>1, EventsApart
  <2> HIDE DEF p, q
  <2>5. p \o q \in Seq(Events) /\ ToSet(p \o q) = ToSet(p) \cup ToSet(q)
    BY <2>1, <2>2, ElementsOfJoined
  <2>6. InOrder(p) => InOrder(p \o q)
    BY <2>1, <2>2, <2>4, InOrderJoined
  <2>7. /\ t.queue[j] \in Seq(Events) /\ ToSet(p) \subseteq ToSet(t.queue[j])
        /\ ToSet(t.queue[j]) \subseteq ToSet(p) \cup TargetBits
        /\ InOrder(p) => InOrder(t.queue[j])
    BY <2>1, <2>2, <2>3, <2>5, <2>6
  <2> QED BY <2>7 DEF p
<1>5. /\ v \subseteq irq \cup Levels /\ v \subseteq Events /\ irq \subseteq Events
      /\ "cDone" \in v => "cDone" \in irq
      /\ s.cRx = <<>> => "cData" \notin Levels
      /\ ~ s.ctlrOn => v \cap ControllerBits = {}
  <2>1. v \subseteq irq \cup Levels
    BY <1>2 DEF Pending
  <2>2. Levels \subseteq Events /\ "cDone" \notin Levels
    BY LevelsAre DEF Events, TargetBits, ControllerBits
  <2>3. s.cRx = <<>> => "cData" \notin Levels
    <3>1. s.cThr \in Nat \ {0}
      BY <1>1 DEF EngineInv
    <3>2. s.cRx = <<>> => Len(s.cRx) = 0
      OBVIOUS
    <3> QED BY <3>1, <3>2, LevelsAre
  <2>4. ~ s.ctlrOn => v \cap ControllerBits = {}
    BY <1>2, EventsApart DEF Enabled
  <2> QED BY <1>1, <2>1, <2>2, <2>3, <2>4 DEF EngineInv
<1> HIDE DEF t, v, vec
<1>6. s.inPlay # None => Queue' = t.queue[s.inPlay] /\ Queue = s.queue[s.inPlay] /\ s.inPlay \in Instances /\ Play' = Play
  BY <1>1, <1>3 DEF Queue, Play, TaskInv, t
<1>7. QueueInv'
  BY <1>1, <1>2, <1>3, <1>4 DEF QueueInv, Draining, t
<1>8. TaskInv'
  BY <1>1, <1>2, <1>3 DEF TaskInv, t
<1>9. OthersInv'
  <2>1. \A j \in Instances : "next" \in ToSet(t.queue[j]) => "next" \in ToSet(s.queue[j])
    BY <1>4, EventsApart
  <2> QED BY <1>1, <1>3, <2>1 DEF OthersInv, t
<1>10. s.inPlay # None =>
         /\ ToSet(Queue') \subseteq ToSet(Queue) \cup TargetBits /\ ToSet(Queue) \subseteq ToSet(Queue')
         /\ InOrder(Queue) => InOrder(Queue')
  BY <1>4, <1>6
<1>11. EngineInv'
  <2>1. "cDone" \in irq' \cup v => "cDone" \in irq \cup isr.vec
    BY <1>2, <1>5
  <2>2. irq' \cap ControllerBits \subseteq isr'.all
    BY <1>2 DEF Pending
  <2>3. ~ s.ctlrOn => v \cap ControllerBits = {} /\ (IF s.inPlay = None THEN Quiet' ELSE ToSet(Queue') \cap ControllerBits = {})
    BY <1>1, <1>2, <1>5, <1>10, EventsApart DEF EngineInv, Quiet, v
  <2> QED BY <1>1, <1>2, <1>3, <1>5, <2>1, <2>2, <2>3 DEF EngineInv, t, v
<1>12. s.inPlay # None => (Waiting' <=> Waiting)
  BY <1>2, <1>6, <1>10, EventsApart DEF Waiting
<1>13. WaitingInv'
  <2> SUFFICES ASSUME s.inPlay # None, Waiting
               PROVE  /\ Quiet' /\ ToSet(Queue') \cap (ControllerBits \cup {"pec"}) = {}
                      /\ task.pc \in {"fill", "raise"} => "next" \notin ToSet(Queue')
    BY <1>1, <1>2, <1>3, <1>6, <1>12 DEF WaitingInv, t
  <2>1. Quiet /\ s.cDesc = <<>> /\ s.cRx = <<>> /\ ToSet(Queue) \cap (ControllerBits \cup {"pec"}) = {}
        /\ (task.pc \in {"fill", "raise"} => "next" \notin ToSet(Queue))
    BY <1>1 DEF WaitingInv
  <2>2. Quiet'
    <3>1. "cEmpty" \notin Levels /\ "cData" \notin Levels
      BY <1>5, <2>1, LevelsAre DEF Quiet
    <3>2. Levels \cap ControllerBits = {}
      BY <3>1, LevelsAre DEF ControllerBits
    <3> QED BY <1>2, <1>5, <2>1, <3>2 DEF Quiet, v
  <2> QED BY <1>10, <2>1, <2>2, EventsApart
<1>14. RunningInv'
  <2> SUFFICES ASSUME s.inPlay # None, ~ Waiting PROVE RunningInv'
    BY <1>3, <1>12 DEF RunningInv, t
  <2>1. Raised' = irq \cup v \cup ToSet(Queue') /\ ToSet(Queue) \subseteq Raised /\ irq \subseteq Raised
    BY <1>2 DEF Raised, v
  <2>2. "cDone" \in Raised' => "cDone" \in Raised
    BY <1>5, <1>10, <2>1, EventsApart
  <2>3. s.cRx = <<>> /\ "cData" \notin Raised => "cData" \notin Raised'
    BY <1>5, <1>10, <2>1, EventsApart
  <2>4. /\ "next" \in ToSet(Queue') <=> "next" \in ToSet(Queue)
        /\ "pec" \in ToSet(Queue') <=> "pec" \in ToSet(Queue)
        /\ ToSet(Queue) \cap ControllerBits = {} => ToSet(Queue') \cap ControllerBits = {}
    BY <1>10, EventsApart
  <2> QED BY <1>1, <1>2, <1>3, <1>6, <2>2, <2>3, <2>4 DEF RunningInv, t
<1>15. s.inPlay # None => Ordered'
  BY <1>1, <1>10 DEF Ordered, InOrder
<1> QED BY <1>3, <1>7, <1>8, <1>9, <1>11, <1>13, <1>14, <1>15 DEF Controlled, t

\* The parts of the invariant.
LEMMA Parts ==
  ASSUME Controlled
  PROVE  /\ QueueInv /\ TaskInv /\ OthersInv /\ EngineInv /\ WaitingInv /\ RunningInv /\ (s.inPlay # None => Ordered)
BY DEF Controlled

\* The bits of the controller are for the instance in play.
LEMMA IsrControllerKeeps ==
  ASSUME AnswersInv, Controlled, IsrController
  PROVE  Controlled'
<1> DEFINE t == s'
           es == ControllerEvents(isr.vec)
<1>1. /\ QueueInv /\ TaskInv /\ OthersInv /\ EngineInv /\ WaitingInv /\ RunningInv /\ (s.inPlay # None => Ordered)
  BY Parts
<1>2. /\ isr.pc = "target" /\ Drained /\ isr'.vec = isr.vec /\ isr'.all = isr.all /\ isr'.pc = "controller"
      /\ DOMAIN isr' = DOMAIN isr
      /\ irq' = irq /\ own' = own /\ task' = task /\ finished' = finished
  <2>1. /\ isr.pc = "target" /\ Drained /\ irq' = irq /\ own' = own /\ task' = task /\ finished' = finished
        /\ \/ isr' = [isr EXCEPT !.pc = "controller", !.drain = FALSE]
           \/ isr' = [isr EXCEPT !.pc = "controller", !.drain = s.inPlay # None, !.who = s.inPlay]
    BY DEF IsrController, hwVars
  <2>2. DOMAIN isr = {"pc", "vec", "all", "drain", "who"}
    BY <1>1 DEF QueueInv, IdleIsr
  <2> QED BY <2>1, <2>2
<1>3. task.pc # "drain"
  BY <1>1, <1>2 DEF QueueInv
<1>4. \A j \in Instances :
        \/ s.queue[j] = <<>>
        \/ task.pc = "disable" /\ j = task.inst /\ s.queue[j] = <<"next">> /\ s.inst[j].state \notin ControllerStates
  <2>1. CASE isr.drain
    BY <1>2, <2>1 DEF Drained
  <2>2. CASE ~ isr.drain
    <3>1. ~ Draining
      BY <1>2, <1>3, <2>2 DEF Draining
    <3> QED BY <1>1, <3>1 DEF QueueInv
  <2> QED BY <2>1, <2>2
<1>5. DOMAIN s = Fields /\ DOMAIN s.queue = Instances
  BY <1>1 DEF AnswersInv, Whole, QueueInv
<1>6. CASE s' = s /\ ~ isr'.drain
  <2>1. QueueInv'
    BY <1>1, <1>2, <1>3, <1>4, <1>6 DEF QueueInv
  <2>2. Queue' = Queue /\ Play' = Play
    BY <1>6 DEF Queue, Play
  <2> QED BY <1>1, <1>2, <1>6, <2>1, <2>2
             DEF Controlled, TaskInv, OthersInv, EngineInv, WaitingInv, Waiting, RunningInv, Ordered, Quiet, Raised
<1>7. CASE s.inPlay = None /\ ~ isr'.drain /\ s' = [s EXCEPT !.cRx = <<>>, !.cDesc = <<>>]
  <2>1. /\ t.inst = s.inst /\ t.inPlay = None /\ t.txn = s.txn /\ t.cDesc = <<>> /\ t.cRx = <<>>
        /\ t.cThr = s.cThr /\ t.go = s.go /\ t.ctlrOn = s.ctlrOn /\ t.queue = s.queue
    BY <1>5, <1>7 DEF Fields
  <2>2. s.cDesc = <<>> /\ s.cRx = <<>>
    BY <1>1, <1>7 DEF EngineInv
  <2> HIDE DEF t
  <2>3. QueueInv'
    BY <1>1, <1>2, <1>3, <1>4, <1>7, <2>1 DEF QueueInv, t
  <2> QED BY <1>1, <1>2, <1>7, <2>1, <2>2, <2>3
             DEF Controlled, TaskInv, OthersInv, EngineInv, WaitingInv, RunningInv, Quiet, t
<1>8. CASE s.inPlay # None /\ isr'.drain /\ s' = Queued(s, s.inPlay, es)
  <2> DEFINE i == s.inPlay
             q == s.queue[i]
  <2>0. i \in Instances /\ Queue = q /\ Play = s.inst[i]
    BY <1>1, <1>8 DEF TaskInv, Queue, Play
  <2>1. /\ t.inst = s.inst /\ t.inPlay = i /\ t.txn = s.txn /\ t.cDesc = s.cDesc /\ t.cRx = s.cRx
        /\ t.cThr = s.cThr /\ t.go = s.go /\ t.ctlrOn = s.ctlrOn /\ DOMAIN t.queue = Instances
        /\ t.queue[i] = q \o es /\ \A j \in Instances \ {i} : t.queue[j] = s.queue[j]
    <3> HIDE DEF es
    <3> QED BY <1>5, <1>8, <2>0 DEF Queued, Fields
  <2>2. q \in Seq(Events) /\ (q = <<>> \/ q = <<"next">>)
    BY <1>1, <1>4, <2>0 DEF QueueInv
  <2>3. es \in Seq(Events) /\ ToSet(es) = isr.vec \cap ControllerBits /\ InOrder(es)
    BY ControllerEventsAre
  <2>4. Queue' = t.queue[i] /\ Play' = Play
    BY <2>1 DEF Queue, Play
  <2> HIDE DEF es, q, t, i
  <2>5. t.queue[i] \in Seq(Events) /\ ToSet(Queue') = ToSet(Queue) \cup (isr.vec \cap ControllerBits)
    <3>1. q \o es \in Seq(Events) /\ ToSet(q \o es) = ToSet(q) \cup ToSet(es)
      BY <2>2, <2>3, ElementsOfJoined
    <3> QED BY <2>0, <2>1, <2>3, <2>4, <3>1
  <2>6. InOrder(Queue')
    <3>1. ToSet(<<>>) = {} /\ ToSet(<<"next">>) = {"next"}
      BY DEF ToSet
    <3>2. "cEmpty" \notin ToSet(q)
      BY <2>2, <3>1
    <3>3. InOrder(q)
      BY <1>1, <1>8, <2>0 DEF Ordered, InOrder
    <3>4. "next" \notin ToSet(es)
      BY <2>3, DescriptorsAre
    <3>5. InOrder(q \o es)
      BY <2>2, <2>3, <3>2, <3>3, <3>4, InOrderJoined
    <3> QED BY <2>1, <2>4, <3>5
  <2>7. Draining' /\ Raised' = Raised
    <3>1. Draining'
      BY <1>2, <1>8 DEF Draining
    <3>2. Raised' = Raised
      BY <1>2, <2>5 DEF Raised
    <3> QED BY <3>1, <3>2
  <2>8. QueueInv'
    <3>1. \A j \in Instances : t.queue[j] \in Seq(Events)
      BY <1>1, <2>1, <2>5 DEF QueueInv
    <3> QED BY <1>1, <1>2, <1>3, <2>1, <2>7, <3>1 DEF QueueInv, t
  <2>9. TaskInv'
    BY <1>1, <1>2, <2>1 DEF TaskInv, t, i
  <2>10. OthersInv'
    BY <1>1, <2>0, <2>1 DEF OthersInv, t, i
  <2>11. EngineInv'
    <3>1. ~ s.ctlrOn => ToSet(Queue') \cap ControllerBits = {}
      BY <1>1, <1>8, <2>5 DEF EngineInv
    <3> QED BY <1>1, <1>2, <1>8, <2>1, <3>1 DEF EngineInv, t, i
  <2>12. Waiting => Queue' = Queue \/ ToSet(Queue') = ToSet(Queue)
    <3>1. Waiting => isr.vec \cap ControllerBits = {}
      BY <1>1, <1>8 DEF WaitingInv, Quiet
    <3> QED BY <2>5, <3>1
  <2>13. Waiting' <=> Waiting
    <3>1. "next" \in ToSet(Queue') <=> "next" \in ToSet(Queue)
      BY <2>5, DescriptorsAre
    <3> QED BY <1>2, <2>4, <3>1 DEF Waiting
  <2>14. WaitingInv'
    BY <1>1, <1>2, <1>8, <2>1, <2>4, <2>12, <2>13 DEF WaitingInv, Quiet, t, i
  <2>15. RunningInv'
    <3> SUFFICES ASSUME ~ Waiting PROVE RunningInv'
      BY <2>13 DEF RunningInv
    <3>1. q = <<>> /\ ToSet(Queue) = {}
      <4>1. CASE q = <<>>
        BY <2>0, <4>1 DEF ToSet
      <4>2. CASE q = <<"next">>
        <5>1. "next" \in ToSet(Queue)
          BY <2>0, <4>2 DEF ToSet
        <5>2. Play.state \notin ControllerStates
          BY <1>4, <2>0, <4>2 DEF q
        <5> QED BY <5>1, <5>2 DEF Waiting
      <4> QED BY <2>2, <4>1, <4>2
    <3>2. "next" \notin ToSet(Queue') /\ "pec" \notin ToSet(Queue')
      BY <2>5, <3>1, DescriptorsAre
    <3> QED BY <1>1, <1>2, <1>8, <2>1, <2>4, <2>7, <3>1, <3>2 DEF RunningInv, t, i
  <2>16. Ordered'
    BY <2>6 DEF Ordered, InOrder
  <2> QED BY <2>8, <2>9, <2>10, <2>11, <2>14, <2>15, <2>16 DEF Controlled
<1>9. \/ s' = s /\ ~ isr'.drain
      \/ s.inPlay = None /\ ~ isr'.drain /\ s' = [s EXCEPT !.cRx = <<>>, !.cDesc = <<>>]
      \/ s.inPlay # None /\ isr'.drain /\ s' = Queued(s, s.inPlay, es)
  <2>1. CASE isr.vec \cap (ControllerBits \cup {"tError"}) = {}
    <3>1. s' = s /\ isr' = [isr EXCEPT !.pc = "controller", !.drain = FALSE]
      BY <2>1 DEF IsrController
    <3>2. ~ isr'.drain
      BY <1>1, <3>1 DEF QueueInv, IdleIsr
    <3> QED BY <3>1, <3>2
  <2>2. CASE isr.vec \cap (ControllerBits \cup {"tError"}) # {}
    <3>1. isr' = [isr EXCEPT !.pc = "controller", !.drain = s.inPlay # None, !.who = s.inPlay]
      BY <2>2 DEF IsrController
    <3>2. s' = IF s.inPlay = None THEN [s EXCEPT !.cRx = <<>>, !.cDesc = <<>>] ELSE Queued(s, s.inPlay, es)
      BY <2>2 DEF IsrController
    <3>3. isr'.drain = (s.inPlay # None)
      BY <1>1, <3>1 DEF QueueInv, IdleIsr
    <3> HIDE DEF es
    <3>4. CASE s.inPlay = None
      <4>1. ~ isr'.drain
        BY <3>3, <3>4, Zenon
      <4> QED BY <3>2, <3>4, <4>1
    <3>5. CASE s.inPlay # None
      <4>1. isr'.drain
        BY <3>3, <3>5, Zenon
      <4> QED BY <3>2, <3>5, <4>1
    <3> QED BY <3>4, <3>5
  <2> QED BY <2>1, <2>2
<1> QED BY <1>6, <1>7, <1>8, <1>9

\* What is queued when nothing is being handled.
LEMMA LeftInQueues ==
  ASSUME QueueInv, (isr.pc # "idle" /\ Drained) \/ (isr.pc = "idle" /\ task.pc # "drain")
  PROVE  /\ \A j \in Instances :
              \/ s.queue[j] = <<>>
              \/ task.pc = "disable" /\ j = task.inst /\ s.queue[j] = <<"next">> /\ s.inst[j].state \notin ControllerStates
         /\ \A j \in Instances : ToSet(s.queue[j]) \subseteq {"next"}
         /\ isr.pc # "idle" => task.pc # "drain"
<1>1. isr.pc # "idle" => task.pc # "drain"
  BY DEF QueueInv
<1>2. \A j \in Instances :
        \/ s.queue[j] = <<>>
        \/ task.pc = "disable" /\ j = task.inst /\ s.queue[j] = <<"next">> /\ s.inst[j].state \notin ControllerStates
  <2>1. CASE isr.pc # "idle" /\ isr.drain
    BY <2>1 DEF Drained
  <2>2. CASE ~ (isr.pc # "idle" /\ isr.drain)
    <3>1. ~ Draining
      BY <1>1, <2>2 DEF Draining
    <3> QED BY <3>1 DEF QueueInv
  <2> QED BY <2>1, <2>2
<1>3. ToSet(<<>>) = {} /\ ToSet(<<"next">>) = {"next"}
  BY DEF ToSet
<1> QED BY <1>1, <1>2, <1>3

\* The bits that were seen are cleared, and those of the controller disabled at its end.
LEMMA IsrExitKeeps ==
  ASSUME AnswersInv, Controlled, IsrExit
  PROVE  Controlled'
<1> DEFINE t == s'
<1>1. /\ QueueInv /\ TaskInv /\ OthersInv /\ EngineInv /\ WaitingInv /\ RunningInv /\ (s.inPlay # None => Ordered)
  BY Parts
<1>2. /\ isr.pc = "controller" /\ Drained /\ isr' = IdleIsr /\ irq' = irq \ isr.all
      /\ own' = own /\ task' = task /\ finished' = finished
  BY DEF IsrExit, hwVars
<1>3. DOMAIN s = Fields
  BY DEF AnswersInv, Whole
<1>4. /\ t.inst = s.inst /\ t.inPlay = s.inPlay /\ t.txn = s.txn /\ t.cDesc = s.cDesc /\ t.cRx = s.cRx
      /\ t.cThr = s.cThr /\ t.go = s.go /\ t.queue = s.queue
      /\ ~ t.ctlrOn => ~ s.ctlrOn \/ "cDone" \in isr.vec
  <2>1. s' = [s EXCEPT !.ctlrOn = @ /\ ~ (isr.who # None /\ "cDone" \in isr.vec)]
    BY DEF IsrExit
  <2> DEFINE b == s.ctlrOn /\ ~ (isr.who # None /\ "cDone" \in isr.vec)
  <2>2. ~ b => ~ s.ctlrOn \/ "cDone" \in isr.vec
    OBVIOUS
  <2>3. s' = [s EXCEPT !.ctlrOn = b]
    BY <2>1
  <2> HIDE DEF b
  <2>4. /\ t.inst = s.inst /\ t.inPlay = s.inPlay /\ t.txn = s.txn /\ t.cDesc = s.cDesc /\ t.cRx = s.cRx
        /\ t.cThr = s.cThr /\ t.go = s.go /\ t.queue = s.queue
    BY <1>3, <2>3 DEF Fields
  <2>5. t.ctlrOn = b
    BY <1>3, <2>3 DEF Fields
  <2>6. ~ t.ctlrOn => ~ b
    BY <2>5, Zenon
  <2> QED BY <2>2, <2>4, <2>6
<1> HIDE DEF t
<1>5. isr'.pc = "idle" /\ isr'.vec = {}
  BY <1>2 DEF IdleIsr
<1>6. /\ task.pc # "drain" /\ \A j \in Instances : ToSet(s.queue[j]) \subseteq {"next"}
      /\ \A j \in Instances :
           \/ s.queue[j] = <<>>
           \/ task.pc = "disable" /\ j = task.inst /\ s.queue[j] = <<"next">> /\ s.inst[j].state \notin ControllerStates
  <2>1. isr.pc # "idle" /\ Drained /\ QueueInv
    BY <1>1, <1>2
  <2>2. (isr.pc # "idle" /\ Drained) \/ (isr.pc = "idle" /\ task.pc # "drain")
    BY <2>1
  <2>3. /\ \A j \in Instances :
             \/ s.queue[j] = <<>>
             \/ task.pc = "disable" /\ j = task.inst /\ s.queue[j] = <<"next">> /\ s.inst[j].state \notin ControllerStates
        /\ \A j \in Instances : ToSet(s.queue[j]) \subseteq {"next"}
        /\ isr.pc # "idle" => task.pc # "drain"
    BY <2>1, <2>2, LeftInQueues
  <2> QED BY <2>1, <2>3
<1>7. Queue' = Queue /\ Play' = Play /\ Raised' \subseteq Raised /\ (Quiet => Quiet')
  BY <1>2, <1>4, <1>5 DEF Queue, Play, Raised, Quiet, t
<1>8. QueueInv'
  BY <1>1, <1>2, <1>4, <1>5, <1>6 DEF QueueInv, t
<1>9. TaskInv' /\ OthersInv'
  BY <1>1, <1>2, <1>4 DEF TaskInv, OthersInv, t
<1>10. EngineInv'
  <2>1. "cDone" \in isr.vec => Quiet'
    BY <1>1, <1>2, <1>5 DEF EngineInv, Quiet
  <2>2. ~ t.ctlrOn /\ s.inPlay = None => Quiet'
    BY <1>1, <1>4, <1>7, <2>1 DEF EngineInv
  <2>3. s.inPlay # None => ToSet(Queue') \cap ControllerBits = {}
    <3>1. "next" \notin ControllerBits
      BY DEF ControllerBits
    <3>2. s.inPlay # None => ToSet(Queue') \subseteq {"next"}
      BY <1>1, <1>6, <1>7 DEF Queue, TaskInv
    <3> QED BY <3>1, <3>2
  <2> QED BY <1>1, <1>2, <1>4, <1>5, <2>2, <2>3 DEF EngineInv, t
<1>11. WaitingInv'
  BY <1>1, <1>2, <1>4, <1>7 DEF WaitingInv, Waiting, t
<1>12. RunningInv'
  BY <1>1, <1>2, <1>4, <1>7 DEF RunningInv, Waiting, t
<1> QED BY <1>1, <1>4, <1>7, <1>8, <1>9, <1>10, <1>11, <1>12 DEF Controlled, Ordered, t

\* The task finds no command in play.
LEMMA CheckKeeps ==
  ASSUME AnswersInv, Controlled, NEW i \in Controllers, NEW p \in OwnProtos, NEW n \in Nat, NEW pec \in BOOLEAN,
         Check(i, p, n, pec)
  PROVE  Controlled'
<1>1. /\ QueueInv /\ TaskInv /\ OthersInv /\ EngineInv
  BY Parts
<1>2. /\ isr.pc = "idle" /\ task.pc = "idle" /\ s.inPlay = None /\ s' = s
      /\ task' = [pc |-> "claim", inst |-> i, proto |-> p, n |-> n, pec |-> pec]
      /\ isr' = isr /\ own' = own /\ irq' = irq /\ finished' = finished
  BY DEF Check, taskStep, hwVars
<1>3. \A j \in Instances : s.queue[j] = <<>>
  BY <1>1, <1>2, LeftInQueues
<1>4. task'.pc = "claim"
  BY <1>2
<1>5. QueueInv'
  BY <1>1, <1>2, <1>3, <1>4 DEF QueueInv
<1>6. TaskInv'
  BY <1>1, <1>2, <1>4 DEF TaskInv
<1>7. OthersInv' /\ EngineInv'
  BY <1>1, <1>2 DEF OthersInv, EngineInv, Quiet
<1> QED BY <1>2, <1>5, <1>6, <1>7 DEF Controlled, WaitingInv, RunningInv

\* It claims the driver.
LEMMA ClaimControlled ==
  ASSUME AnswersInv, Controlled, Claim
  PROVE  Controlled'
<1> DEFINE t == s'
           i == task.inst
<1>1. /\ QueueInv /\ TaskInv /\ OthersInv /\ EngineInv
  BY Parts
<1>2. /\ isr.pc = "idle" /\ task.pc = "claim" /\ Pending \cap Enabled = {} /\ task' = [task EXCEPT !.pc = "fill"]
      /\ isr' = isr /\ own' = own /\ irq' = irq /\ finished' = finished
      /\ s' = [s EXCEPT !.txn = @ + 1, !.inPlay = task.inst]
  BY DEF Claim, taskStep, hwVars
<1>3. /\ i \in Instances /\ i # None /\ s.inPlay = None /\ isr = IdleIsr
      /\ task' \in [pc : {"fill"}, inst : Controllers, proto : OwnProtos, n : Nat, pec : BOOLEAN]
      /\ task'.pc = "fill" /\ task'.inst = i
  <2>1. task \in [pc : {"claim", "fill", "raise", "disable", "drain"}, inst : Controllers,
                  proto : OwnProtos, n : Nat, pec : BOOLEAN]
    BY <1>1, <1>2 DEF TaskInv, IdleTask
  <2>2. i \in Instances /\ i # None
    BY <2>1, SmbusAssumption
  <2> QED BY <1>1, <1>2, <2>1, <2>2 DEF TaskInv, QueueInv
<1>4. /\ t.inst = s.inst /\ t.inPlay = i /\ t.txn = s.txn + 1 /\ t.cDesc = s.cDesc /\ t.cRx = s.cRx
      /\ t.cThr = s.cThr /\ t.go = s.go /\ t.ctlrOn = s.ctlrOn /\ t.queue = s.queue /\ s.txn \in Nat
  BY <1>2 DEF AnswersInv, Whole, Fields
<1> HIDE DEF t, i
<1>5. \A j \in Instances : s.queue[j] = <<>> /\ ToSet(s.queue[j]) = {}
  <2>1. \A j \in Instances : s.queue[j] = <<>>
    BY <1>1, <1>2, LeftInQueues
  <2> QED BY <2>1 DEF ToSet
<1>6. s.cDesc = <<>> /\ s.cRx = <<>>
  BY <1>1, <1>3 DEF EngineInv
<1>7. Quiet
  <2>1. isr.vec = {}
    BY <1>3 DEF IdleIsr
  <2>2. CASE ~ s.ctlrOn
    BY <1>1, <1>3, <2>2 DEF EngineInv
  <2>3. CASE s.ctlrOn
    <3>1. irq \cap ControllerBits = {} /\ "cEmpty" \notin Levels
      BY <1>2, <2>3, EventsApart DEF Pending, Enabled
    <3>2. own.phase \in {"idle", "write", "read"}
      BY <1>1 DEF EngineInv
    <3> QED BY <1>6, <2>1, <3>1, <3>2, LevelsAre DEF Quiet
  <2> QED BY <2>2, <2>3
<1>8. Queue' = s.queue[i] /\ Play' = s.inst[i]
  BY <1>4 DEF Queue, Play, t
<1>9. QueueInv'
  BY <1>1, <1>2, <1>3, <1>4, <1>5 DEF QueueInv, t
<1>10. TaskInv'
  BY <1>3, <1>4 DEF TaskInv, t
<1>11. OthersInv'
  BY <1>1, <1>3, <1>4, SmbusAssumption DEF OthersInv, t
<1>12. EngineInv'
  BY <1>1, <1>2, <1>3, <1>4, <1>5, <1>6, <1>7, <1>8, EventsApart DEF EngineInv, Quiet, t
<1>13. Waiting'
  BY <1>3 DEF Waiting
<1>14. WaitingInv'
  BY <1>1, <1>2, <1>3, <1>4, <1>5, <1>6, <1>7, <1>8, SmbusAssumption DEF WaitingInv, OthersInv, Quiet, t
<1>15. Ordered' /\ RunningInv'
  <2>1. DOMAIN <<>> = {}
    OBVIOUS
  <2>2. Queue' = <<>>
    BY <1>3, <1>5, <1>8
  <2> QED BY <1>13, <2>1, <2>2 DEF Ordered, RunningInv
<1> QED BY <1>9, <1>10, <1>11, <1>12, <1>14, <1>15 DEF Controlled

\* The task once it has claimed the driver.
LEMMA TaskIs ==
  ASSUME TaskInv, task.pc # "idle"
  PROVE  /\ task \in [pc : {"claim", "fill", "raise", "disable", "drain"}, inst : Controllers,
                      proto : OwnProtos, n : Nat, pec : BOOLEAN]
         /\ task.inst \in Instances /\ task.inst # None
<1>1. task \in [pc : {"claim", "fill", "raise", "disable", "drain"}, inst : Controllers,
                proto : OwnProtos, n : Nat, pec : BOOLEAN]
  BY DEF TaskInv, IdleTask
<1> QED BY <1>1, SmbusAssumption

\* It fills in the command.
LEMMA FillControlled ==
  ASSUME AnswersInv, Controlled, Fill
  PROVE  Controlled'
<1> DEFINE t == s'
           i == task.inst
           x == [s.inst[i] EXCEPT !.size = task.n, !.send = 0, !.proto = task.proto, !.pec = task.pec]
<1>1. /\ QueueInv /\ TaskInv /\ OthersInv /\ EngineInv /\ WaitingInv
  BY Parts
<1>2. /\ isr.pc = "idle" /\ task.pc = "fill" /\ task' = [task EXCEPT !.pc = "raise"]
      /\ isr' = isr /\ own' = own /\ irq' = irq /\ finished' = finished
  BY DEF Fill, taskStep, hwVars
<1>3. /\ i \in Instances /\ i # None /\ s.inPlay = i /\ task.proto \in OwnProtos /\ task.n \in Nat /\ task.pec \in BOOLEAN
      /\ task' \in [pc : {"raise"}, inst : Controllers, proto : OwnProtos, n : Nat, pec : BOOLEAN]
      /\ task'.pc = "raise" /\ task'.inst = i /\ task'.proto = task.proto
  <2>1. /\ task \in [pc : {"claim", "fill", "raise", "disable", "drain"}, inst : Controllers,
                     proto : OwnProtos, n : Nat, pec : BOOLEAN]
        /\ i \in Instances /\ i # None
    BY <1>1, <1>2, TaskIs
  <2> QED BY <1>1, <1>2, <2>1 DEF TaskInv
<1>4. /\ t.inPlay = i /\ t.txn = s.txn /\ t.cDesc = <<>> /\ t.cRx = <<>>
      /\ t.cThr = s.cThr /\ t.go = s.go /\ t.ctlrOn = s.ctlrOn /\ t.queue = s.queue
      /\ t.inst[i] = x /\ \A j \in Instances \ {i} : t.inst[j] = s.inst[j]
  <2>1. DOMAIN s = Fields /\ DOMAIN s.inst = Instances /\ DOMAIN s.inst[i] = InstanceFields
    BY <1>3 DEF AnswersInv, Whole
  <2>2. s' = [s EXCEPT !.inst[i].size = task.n, !.inst[i].send = 0,
                       !.inst[i].proto = task.proto, !.inst[i].pec = task.pec,
                       !.cDesc = <<>>, !.cRx = <<>>]
    BY DEF Fill
  <2> HIDE DEF i
  <2>3. /\ t.inPlay = s.inPlay /\ t.txn = s.txn /\ t.cDesc = <<>> /\ t.cRx = <<>>
        /\ t.cThr = s.cThr /\ t.go = s.go /\ t.ctlrOn = s.ctlrOn /\ t.queue = s.queue
    BY <2>1, <2>2 DEF Fields
  <2>4. t.inst[i] = x
    BY <1>3, <2>1, <2>2 DEF Fields
  <2>5. \A j \in Instances \ {i} : t.inst[j] = s.inst[j]
    BY <2>1, <2>2 DEF Fields
  <2> QED BY <1>3, <2>3, <2>4, <2>5
<1>5. /\ x.state = s.inst[i].state /\ x.expect = s.inst[i].expect /\ x.descs = s.inst[i].descs /\ x.buf = s.inst[i].buf
      /\ x.size = task.n /\ x.proto = task.proto /\ x.pec = task.pec
  <2>1. DOMAIN s.inst[i] = InstanceFields
    BY <1>3 DEF AnswersInv, Whole
  <2> QED BY <2>1 DEF InstanceFields
<1> HIDE DEF t, i, x
<1>6. Waiting /\ Queue = s.queue[i] /\ Play = s.inst[i]
  BY <1>2, <1>3 DEF Waiting, Queue, Play
<1>7. s.cDesc = <<>> /\ s.cRx = <<>> /\ Waiting'
  BY <1>1, <1>3, <1>6 DEF WaitingInv, Waiting
<1>8. Queue' = Queue /\ Play' = x
  BY <1>4, <1>6 DEF Queue, Play, t
<1>9. QueueInv'
  <2>1. \A j \in Instances : s.queue[j] = <<>>
    BY <1>1, <1>2, LeftInQueues
  <2> QED BY <1>1, <1>2, <1>3, <1>4, <2>1 DEF QueueInv, t
<1>10. TaskInv'
  BY <1>1, <1>3, <1>4 DEF TaskInv, t
<1>11. OthersInv'
  <2>1. Clean(x)
    BY <1>1, <1>3, <1>5 DEF OthersInv, Clean
  <2>2. \A j \in Instances : Clean(t.inst[j])
    BY <1>1, <1>4, <2>1 DEF OthersInv
  <2> QED BY <1>1, <1>3, <1>4, <2>2 DEF OthersInv, t
<1>12. EngineInv'
  BY <1>1, <1>2, <1>3, <1>4, <1>7, <1>8 DEF EngineInv, Quiet, t
<1>13. WaitingInv'
  BY <1>1, <1>2, <1>3, <1>4, <1>5, <1>6, <1>7, <1>8 DEF WaitingInv, Quiet, t
<1>14. RunningInv' /\ Ordered'
  <2>1. Ordered
    BY <1>3, Parts
  <2> QED BY <1>7, <1>8, <2>1 DEF RunningInv, Ordered
<1> QED BY <1>9, <1>10, <1>11, <1>12, <1>13, <1>14 DEF Controlled

\* It queues the first event.
LEMMA RaiseControlled ==
  ASSUME AnswersInv, Controlled, RaiseNext
  PROVE  Controlled'
<1> DEFINE t == s'
           i == task.inst
<1>1. /\ QueueInv /\ TaskInv /\ OthersInv /\ EngineInv /\ WaitingInv
  BY Parts
<1>2. /\ isr.pc = "idle" /\ task.pc = "raise" /\ task' = [task EXCEPT !.pc = "disable"] /\ s' = Raise(s, i, "next")
      /\ isr' = isr /\ own' = own /\ irq' = irq /\ finished' = finished
  BY DEF RaiseNext, taskStep, hwVars
<1>3. /\ i \in Instances /\ i # None /\ s.inPlay = i
      /\ task' \in [pc : {"disable"}, inst : Controllers, proto : OwnProtos, n : Nat, pec : BOOLEAN]
      /\ task'.pc = "disable" /\ task'.inst = i /\ task'.proto = task.proto
  <2>1. /\ task \in [pc : {"claim", "fill", "raise", "disable", "drain"}, inst : Controllers,
                     proto : OwnProtos, n : Nat, pec : BOOLEAN]
        /\ i \in Instances /\ i # None
    BY <1>1, <1>2, TaskIs
  <2> QED BY <1>1, <1>2, <2>1 DEF TaskInv
<1>4. \A j \in Instances : s.queue[j] = <<>>
  BY <1>1, <1>2, LeftInQueues
<1>5. /\ t.inst = s.inst /\ t.inPlay = i /\ t.txn = s.txn /\ t.cDesc = s.cDesc /\ t.cRx = s.cRx
      /\ t.cThr = s.cThr /\ t.go = s.go /\ t.ctlrOn = s.ctlrOn /\ DOMAIN t.queue = Instances
      /\ t.queue[i] = <<"next">> /\ \A j \in Instances \ {i} : t.queue[j] = <<>>
  <2>1. DOMAIN s = Fields /\ DOMAIN s.queue = Instances
    BY <1>1 DEF AnswersInv, Whole, QueueInv
  <2> HIDE DEF i
  <2>2. t.queue[i] = Append(s.queue[i], "next")
    BY <1>2, <1>3, <2>1 DEF Raise, Fields
  <2>3. Append(<<>>, "next") = <<"next">>
    OBVIOUS
  <2>4. t.queue[i] = <<"next">>
    BY <1>3, <1>4, <2>2, <2>3
  <2> QED BY <1>2, <1>3, <1>4, <2>1, <2>4 DEF Raise, Fields
<1> HIDE DEF t, i
<1>6. Waiting /\ Queue' = <<"next">> /\ Play = s.inst[i] /\ Play' = Play
  BY <1>2, <1>3, <1>5 DEF Waiting, Queue, Play, t
<1>7. Quiet /\ s.cDesc = <<>> /\ s.cRx = <<>> /\ Play.state \notin ControllerStates
      /\ Play.proto = task.proto /\ Play.size \in Nat /\ Play.pec \in BOOLEAN
  BY <1>1, <1>2, <1>3, <1>6 DEF WaitingInv
<1>8. /\ DOMAIN <<"next">> = {1} /\ ToSet(<<"next">>) = {"next"} /\ <<"next">> \in Seq(Events) /\ <<>> \in Seq(Events)
      /\ ToSet(<<>>) = {}
  BY DEF ToSet, Events
<1>9. Waiting'
  BY <1>3, <1>6, <1>7, <1>8 DEF Waiting
<1>10. QueueInv'
  <2>1. \A j \in Instances : t.queue[j] \in Seq(Events)
    BY <1>3, <1>5, <1>8
  <2> QED BY <1>1, <1>2, <1>3, <1>5, <1>6, <1>7, <2>1 DEF QueueInv, t
<1>11. TaskInv'
  BY <1>1, <1>3, <1>5 DEF TaskInv, t
<1>12. OthersInv'
  BY <1>1, <1>3, <1>5, <1>8 DEF OthersInv, t
<1>13. EngineInv'
  BY <1>1, <1>2, <1>3, <1>5, <1>6, <1>8, EventsApart DEF EngineInv, Quiet, t
<1>14. WaitingInv'
  BY <1>2, <1>3, <1>5, <1>6, <1>7, <1>8, EventsApart DEF WaitingInv, Quiet, t
<1>15. RunningInv' /\ Ordered'
  BY <1>6, <1>8, <1>9 DEF RunningInv, Ordered
<1> QED BY <1>10, <1>11, <1>12, <1>13, <1>14, <1>15 DEF Controlled

\* It disables interrupts, to handle the events itself.
LEMMA DisableControlled ==
  ASSUME AnswersInv, Controlled, Disable
  PROVE  Controlled'
<1>1. /\ QueueInv /\ TaskInv /\ OthersInv /\ EngineInv /\ WaitingInv /\ RunningInv /\ (s.inPlay # None => Ordered)
  BY Parts
<1>2. /\ isr.pc = "idle" /\ task.pc = "disable" /\ task' = [task EXCEPT !.pc = "drain"] /\ s' = s
      /\ isr' = isr /\ own' = own /\ irq' = irq /\ finished' = finished
  BY DEF Disable, taskStep, hwVars
<1>3. /\ task' \in [pc : {"drain"}, inst : Controllers, proto : OwnProtos, n : Nat, pec : BOOLEAN]
      /\ task'.pc = "drain" /\ task'.inst = task.inst /\ task'.proto = task.proto
  <2>1. task \in [pc : {"claim", "fill", "raise", "disable", "drain"}, inst : Controllers,
                  proto : OwnProtos, n : Nat, pec : BOOLEAN]
    BY <1>1, <1>2, TaskIs
  <2> QED BY <1>2, <2>1
<1>4. Queue' = Queue /\ Play' = Play /\ (Waiting' <=> Waiting) /\ Raised' = Raised
  BY <1>2, <1>3 DEF Queue, Play, Waiting, Raised
<1>5. QueueInv'
  BY <1>1, <1>2, <1>3 DEF QueueInv, Draining
<1>6. TaskInv'
  BY <1>1, <1>2, <1>3 DEF TaskInv
<1>7. OthersInv' /\ EngineInv'
  BY <1>1, <1>2, <1>4 DEF OthersInv, EngineInv, Quiet
<1>8. WaitingInv'
  BY <1>1, <1>2, <1>3, <1>4 DEF WaitingInv, Quiet
<1>9. RunningInv'
  BY <1>1, <1>2, <1>4 DEF RunningInv
<1> QED BY <1>1, <1>2, <1>4, <1>5, <1>6, <1>7, <1>8, <1>9 DEF Controlled, Ordered

\* It enables the bits of the controller.
LEMMA EnableControlled ==
  ASSUME AnswersInv, Controlled, Enable
  PROVE  Controlled'
<1> DEFINE t == s'
<1>1. /\ QueueInv /\ TaskInv /\ OthersInv /\ EngineInv /\ WaitingInv /\ RunningInv /\ (s.inPlay # None => Ordered)
  BY Parts
<1>2. /\ isr.pc = "idle" /\ task.pc = "drain" /\ task' = IdleTask /\ s' = [s EXCEPT !.ctlrOn = TRUE]
      /\ \A j \in Instances : s.queue[j] = <<>>
      /\ isr' = isr /\ own' = own /\ irq' = irq /\ finished' = finished
  BY DEF Enable, taskStep, hwVars
<1>3. task'.pc = "idle"
  BY <1>2 DEF IdleTask
<1>4. /\ t.inst = s.inst /\ t.inPlay = s.inPlay /\ t.txn = s.txn /\ t.cDesc = s.cDesc /\ t.cRx = s.cRx
      /\ t.cThr = s.cThr /\ t.go = s.go /\ t.ctlrOn /\ t.queue = s.queue
  BY <1>2 DEF AnswersInv, Whole, Fields
<1> HIDE DEF t
<1>5. ToSet(<<>>) = {}
  BY DEF ToSet
<1>6. Queue' = Queue /\ Play' = Play /\ Raised' = Raised
  BY <1>2, <1>4 DEF Queue, Play, Raised, t
<1>7. s.inPlay # None => ~ Waiting' /\ ~ Waiting
  <2>1. s.inPlay # None => ToSet(Queue) = {}
    BY <1>1, <1>2, <1>5 DEF TaskInv, Queue
  <2> QED BY <1>2, <1>3, <1>6, <2>1 DEF Waiting
<1>8. QueueInv'
  BY <1>1, <1>2, <1>3, <1>4 DEF QueueInv, t
<1>9. TaskInv'
  BY <1>1, <1>2, <1>3, <1>4 DEF TaskInv, t
<1>10. OthersInv' /\ EngineInv'
  BY <1>1, <1>2, <1>4, <1>6 DEF OthersInv, EngineInv, t
<1>11. WaitingInv' /\ RunningInv'
  BY <1>1, <1>2, <1>4, <1>6, <1>7 DEF WaitingInv, RunningInv, t
<1> QED BY <1>1, <1>4, <1>6, <1>8, <1>9, <1>10, <1>11 DEF Controlled, Ordered, t

-----------------------------------------------------------------------------
(* What the IP does: the bus and the controller engine.                     *)

\* What the IP leaves alone.
IpFrame ==
  /\ s'.inst = s.inst /\ s'.queue = s.queue /\ s'.inPlay = s.inPlay /\ s'.txn = s.txn
  /\ s'.ctlrOn = s.ctlrOn /\ s'.cThr = s.cThr /\ isr' = isr /\ task' = task /\ irq \subseteq irq'

\* A step of the IP keeps the invariant if it leaves a command that waits alone, and
\* tells one that runs nothing its state has no handler for.
LEMMA IpKeeps ==
  ASSUME Controlled, IpFrame, EngineInv',
         s.inPlay # None /\ Waiting => Quiet' /\ s'.cDesc = <<>> /\ s'.cRx = <<>>,
         s.inPlay # None /\ ~ Waiting =>
           /\ "cData" \in irq' => "cData" \in irq
           /\ Play.state \notin ReadStates => s'.cRx = <<>> /\ ToSet(s'.cDesc) \cap Fetches = {}
           /\ "cDone" \in irq' \/ ToSet(s'.cDesc) \cap Ends # {} => ComesToEnd
           /\ "cDone" \in Raised' => s.txn \in finished'
  PROVE  Controlled'
<1> DEFINE t == s'
<1>1. /\ QueueInv /\ TaskInv /\ OthersInv /\ EngineInv /\ WaitingInv /\ RunningInv /\ (s.inPlay # None => Ordered)
  BY Parts
<1>2. /\ t.inst = s.inst /\ t.queue = s.queue /\ t.inPlay = s.inPlay /\ t.txn = s.txn
      /\ t.ctlrOn = s.ctlrOn /\ t.cThr = s.cThr /\ isr' = isr /\ task' = task /\ irq \subseteq irq'
  BY DEF IpFrame
<1> DEFINE cd == t.cDesc
           cr == t.cRx
<1> HIDE DEF t
<1>3. Queue' = Queue /\ Play' = Play /\ Raised' = irq' \cup isr.vec \cup ToSet(Queue)
      /\ (Waiting' <=> Waiting) /\ (Draining' <=> Draining)
  BY <1>2 DEF Queue, Play, Raised, Waiting, Draining, t
<1>4. QueueInv'
  BY <1>1, <1>2, <1>3 DEF QueueInv, t
<1>5. TaskInv' /\ OthersInv'
  BY <1>1, <1>2 DEF TaskInv, OthersInv, t
<1>6. WaitingInv'
  BY <1>1, <1>2, <1>3 DEF WaitingInv, t
<1>7. RunningInv'
  <2> SUFFICES ASSUME s.inPlay # None, ~ Waiting PROVE RunningInv'
    BY <1>2, <1>3 DEF RunningInv, t
  <2>1. /\ "cData" \in irq' => "cData" \in irq
        /\ Play.state \notin ReadStates => cr = <<>> /\ ToSet(cd) \cap Fetches = {}
        /\ "cDone" \in irq' \/ ToSet(cd) \cap Ends # {} => ComesToEnd
        /\ "cDone" \in Raised' => s.txn \in finished'
    BY DEF t
  <2>2. "cData" \in Raised' => "cData" \in Raised
    BY <1>3, <2>1 DEF Raised
  <2>3. "cDone" \in Raised' \/ ToSet(cd) \cap Ends # {} => ComesToEnd
    BY <1>3, <2>1 DEF ComesToEnd, Raised
  <2>4. /\ Play.state \in ControllerStates \cup {"AwaitingDone"} /\ "pec" \notin ToSet(Queue)
        /\ Play.expect \in Int /\ Play.descs \in Int /\ Play.size \in Int /\ Play.buf \in Seq(Received)
        /\ Play.pec \in BOOLEAN /\ Play.proto \in OwnProtos
        /\ "next" \in ToSet(Queue) => ToSet(Queue) \cap ControllerBits = {}
        /\ Play.state \in {"SendCommand", "SendReadStart"} => "next" \in ToSet(Queue)
        /\ Play.state \in ReadStates \cup {"AwaitingDone"} => "next" \notin ToSet(Queue)
        /\ Play.state \notin ReadStates => "cData" \notin Raised
        /\ ComesToEnd =>
             \/ Play.state = "AwaitingDone"
             \/ Play.state \in {"ReadByte", "ReadDone"} /\ Play.descs >= Play.expect
        /\ Play.state = "SendCommand" => Play.proto \in Reads \cup Calls \cup Writes
        /\ Play.state = "WriteByte" => Play.proto \in Calls \cup Writes
        /\ Play.state \in ReadStates \cup {"SendReadStart"} => Play.proto \in Reads \cup Calls \cup {"receive"}
        /\ Play.state = "ReadBlockSize" => Play.proto \in Blocks
    BY <1>1 DEF RunningInv, ComesToEnd
  <2> DEFINE x == Play
             q == Queue
             rd == Raised'
  <2>5. /\ x.state \in ControllerStates \cup {"AwaitingDone"} /\ "pec" \notin ToSet(q)
        /\ x.expect \in Int /\ x.descs \in Int /\ x.size \in Int /\ x.buf \in Seq(Received)
        /\ x.pec \in BOOLEAN /\ x.proto \in OwnProtos
        /\ "next" \in ToSet(q) => ToSet(q) \cap ControllerBits = {}
        /\ x.state \in {"SendCommand", "SendReadStart"} => "next" \in ToSet(q)
        /\ x.state \in ReadStates \cup {"AwaitingDone"} => "next" \notin ToSet(q)
        /\ x.state \notin ReadStates => "cData" \notin rd /\ cr = <<>> /\ ToSet(cd) \cap Fetches = {}
        /\ "cDone" \in rd \/ ToSet(cd) \cap Ends # {} =>
             \/ x.state = "AwaitingDone"
             \/ x.state \in {"ReadByte", "ReadDone"} /\ x.descs >= x.expect
        /\ "cDone" \in rd => s.txn \in finished'
        /\ x.state = "SendCommand" => x.proto \in Reads \cup Calls \cup Writes
        /\ x.state = "WriteByte" => x.proto \in Calls \cup Writes
        /\ x.state \in ReadStates \cup {"SendReadStart"} => x.proto \in Reads \cup Calls \cup {"receive"}
        /\ x.state = "ReadBlockSize" => x.proto \in Blocks
    BY <2>1, <2>2, <2>3, <2>4
  <2>6. x = Play' /\ q = Queue' /\ rd = Raised' /\ cr = s'.cRx /\ cd = s'.cDesc /\ s'.txn = s.txn
    BY <1>2, <1>3 DEF t
  <2> HIDE DEF x, q, rd, cr, cd
  <2> QED BY <2>5, <2>6 DEF RunningInv
<1>8. s.inPlay # None => Ordered'
  BY <1>1, <1>3 DEF Ordered
<1> QED BY <1>2, <1>4, <1>5, <1>6, <1>7, <1>8 DEF Controlled, t

\* The bus, which only the target hears.
LEMMA BusKeeps ==
  ASSUME AnswersInv, Controlled, IpFrame, s'.cDesc = s.cDesc, s'.cRx = s.cRx, s'.go = s.go,
         own' = own, finished' = finished, irq' \subseteq irq \cup TargetBits
  PROVE  Controlled'
<1>1. /\ QueueInv /\ TaskInv /\ OthersInv /\ EngineInv /\ WaitingInv /\ RunningInv
  BY Parts
<1>2. /\ s'.inst = s.inst /\ s'.queue = s.queue /\ s'.inPlay = s.inPlay /\ s'.txn = s.txn
      /\ s'.ctlrOn = s.ctlrOn /\ s'.cThr = s.cThr /\ isr' = isr /\ task' = task /\ irq \subseteq irq'
  BY DEF IpFrame
<1>3. irq' \cap ControllerBits = irq \cap ControllerBits /\ irq' \subseteq Events
      /\ ("cDone" \in irq' <=> "cDone" \in irq) /\ ("cData" \in irq' <=> "cData" \in irq)
  BY <1>1, <1>2, EventsApart DEF EngineInv
<1>4. Queue' = Queue /\ (Quiet' <=> Quiet)
  BY <1>2, <1>3 DEF Queue, Quiet
<1>5. EngineInv'
  BY <1>1, <1>2, <1>3, <1>4 DEF EngineInv
<1>6. s.inPlay # None /\ Waiting => Quiet' /\ s'.cDesc = <<>> /\ s'.cRx = <<>>
  BY <1>1, <1>4 DEF WaitingInv
<1>7. "cDone" \in Raised' => "cDone" \in Raised
  BY <1>2, <1>3, <1>4 DEF Raised
<1>8. s.inPlay # None /\ ~ Waiting =>
        /\ "cData" \in irq' => "cData" \in irq
        /\ Play.state \notin ReadStates => s'.cRx = <<>> /\ ToSet(s'.cDesc) \cap Fetches = {}
        /\ "cDone" \in irq' \/ ToSet(s'.cDesc) \cap Ends # {} => ComesToEnd
        /\ "cDone" \in Raised' => s.txn \in finished'
  BY <1>1, <1>3, <1>7 DEF RunningInv, ComesToEnd, Raised
<1> QED BY <1>5, <1>6, <1>8, IpKeeps

\* The engine stops with an error, or with its command given up.
LEMMA StopsKeeps ==
  ASSUME AnswersInv, Controlled, IpFrame, s'.cDesc = s.cDesc, s'.cRx = s.cRx, ~ s'.go, own' = own \/ own' = IdleEngine,
         finished' = finished, irq' \subseteq irq \cup TargetBits \cup {"cError"},
         "cDone" \notin irq \cup isr.vec,
         s.inPlay = None => s.ctlrOn,
         s.inPlay # None => ~ Waiting
  PROVE  Controlled'
<1>1. /\ QueueInv /\ TaskInv /\ OthersInv /\ EngineInv /\ WaitingInv /\ RunningInv
  BY Parts
<1>2. /\ s'.inst = s.inst /\ s'.queue = s.queue /\ s'.inPlay = s.inPlay /\ s'.txn = s.txn
      /\ s'.ctlrOn = s.ctlrOn /\ s'.cThr = s.cThr /\ isr' = isr /\ task' = task /\ irq \subseteq irq'
  BY DEF IpFrame
<1>3. irq' \subseteq Events /\ "cDone" \notin irq' /\ ("cData" \in irq' <=> "cData" \in irq)
  BY <1>1, <1>2, EventsApart DEF EngineInv
<1>4. Queue' = Queue
  BY <1>2 DEF Queue
<1>5. EngineInv'
  <2>1. /\ own' \in [of : Nat, phase : {"idle", "write", "read"}, got : Nat, proto : OwnProtos \cup {"none"}]
        /\ s.inPlay # None /\ own'.phase # "idle" => own'.of = s.txn
    BY <1>1 DEF EngineInv, IdleEngine
  <2> QED BY <1>1, <1>2, <1>3, <1>4, <2>1 DEF EngineInv
<1>7. "cDone" \in Raised' => "cDone" \in Raised
  BY <1>2, <1>3, <1>4 DEF Raised
<1>8. s.inPlay # None /\ ~ Waiting =>
        /\ "cData" \in irq' => "cData" \in irq
        /\ Play.state \notin ReadStates => s'.cRx = <<>> /\ ToSet(s'.cDesc) \cap Fetches = {}
        /\ "cDone" \in irq' \/ ToSet(s'.cDesc) \cap Ends # {} => ComesToEnd
        /\ "cDone" \in Raised' => s.txn \in finished'
  BY <1>1, <1>3, <1>7 DEF RunningInv, ComesToEnd, Raised
<1> QED BY <1>5, <1>8, IpKeeps

\* The bits that a descriptor raises.
LEMMA AlmostIs ==
  ASSUME NEW fifo, NEW b PROVE Almost(fifo, b) \subseteq {b}
BY DEF Almost

\* A remote controller.
LEMMA RemoteKeeps ==
  ASSUME AnswersInv, Controlled, Remote \/ RemoteProgress
  PROVE  Controlled'
<1> DEFINE t == s'
<1>1. DOMAIN s = Fields
  BY DEF AnswersInv, Whole
<1>2. ASSUME t = s \/ (\E a : t = [s EXCEPT !.tDesc = a]) \/ (\E a : t = [s EXCEPT !.tRx = a])
      PROVE  /\ t.inst = s.inst /\ t.queue = s.queue /\ t.inPlay = s.inPlay /\ t.txn = s.txn
             /\ t.ctlrOn = s.ctlrOn /\ t.cThr = s.cThr /\ t.cDesc = s.cDesc /\ t.cRx = s.cRx /\ t.go = s.go
  <2> HIDE DEF t
  <2> QED BY <1>1, <1>2 DEF Fields
<1>3. ASSUME t = s \/ (\E a : t = [s EXCEPT !.tDesc = a]) \/ (\E a : t = [s EXCEPT !.tRx = a]),
             irq \subseteq irq', irq' \subseteq irq \cup TargetBits, isr' = isr, task' = task, own' = own, finished' = finished
      PROVE  Controlled'
  BY <1>2, <1>3, BusKeeps DEF IpFrame
<1>4. \A f : Almost(f, "tEmpty") \subseteq TargetBits
  BY AlmostIs DEF TargetBits
<1>5. {"tWrite", "tError", "tRead", "tDone"} \subseteq TargetBits
  BY DEF TargetBits
<1>6. CASE \E j, p, n : RemoteStart(j, p, n)
  <2>1. isr' = isr /\ task' = task /\ own' = own /\ finished' = finished /\ own.phase = "idle"
    BY <1>6 DEF RemoteStart
  <2>2. CASE irq' = irq \cup {"tWrite"} /\ s' = [s EXCEPT !.tDesc = <<>>]
    BY <1>3, <1>5, <2>1, <2>2
  <2>3. CASE /\ s.go /\ s.cDesc # <<>> /\ irq' = irq \cup {"tWrite", "cError"}
             /\ s' = [s EXCEPT !.tDesc = <<>>, !.go = FALSE]
    <3>1. /\ t.inst = s.inst /\ t.queue = s.queue /\ t.inPlay = s.inPlay /\ t.txn = s.txn
          /\ t.ctlrOn = s.ctlrOn /\ t.cThr = s.cThr /\ t.cDesc = s.cDesc /\ t.cRx = s.cRx /\ ~ t.go
      <4>1. s' = [[s EXCEPT !.tDesc = <<>>] EXCEPT !.go = FALSE]
        BY <2>3
      <4> HIDE DEF t
      <4> QED BY <1>1, <4>1 DEF Fields, t
    <3>2. EngineInv /\ WaitingInv
      BY Parts
    <3>3. "cDone" \notin irq \cup isr.vec /\ s.inPlay # None /\ ~ Waiting
      BY <2>3, <3>2 DEF EngineInv, WaitingInv
    <3>4. irq' \subseteq irq \cup TargetBits \cup {"cError"} /\ irq \subseteq irq'
      BY <1>5, <2>3
    <3> QED BY <2>1, <3>1, <3>3, <3>4, StopsKeeps DEF IpFrame
  <2> QED BY <1>6, <2>2, <2>3 DEF RemoteStart
<1>7. CASE RemoteAbandon \/ RemoteRestart \/ RemoteTimeout
  <2>1. s' = s /\ isr' = isr /\ task' = task /\ own' = own /\ finished' = finished
    BY <1>7 DEF RemoteAbandon, RemoteRestart, RemoteTimeout, remStep
  <2>2. irq' = irq \/ irq' = irq \cup {"tRead"} \/ irq' = irq \cup {"tError"}
    BY <1>7 DEF RemoteAbandon, RemoteRestart, RemoteTimeout
  <2> QED BY <1>3, <1>5, <2>1, <2>2
<1>8. CASE RemoteByte
  <2>1. s' = [s EXCEPT !.tRx = Append(@, Head(rem.out))] /\ irq' = irq
        /\ isr' = isr /\ task' = task /\ own' = own /\ finished' = finished
    BY <1>8 DEF RemoteByte, remStep
  <2> QED BY <1>3, <2>1
<1>9. CASE RemoteAnswered
  <2>1. s' = [s EXCEPT !.tDesc = Tail(@)]
        /\ isr' = isr /\ task' = task /\ own' = own /\ finished' = finished
    BY <1>9 DEF RemoteAnswered, remStep
  <2>2. \E f : irq' = irq \cup Almost(f, "tEmpty") \/ irq' = irq \cup Almost(f, "tEmpty") \cup {"tError"}
    BY <1>9 DEF RemoteAnswered
  <2> QED BY <1>3, <1>4, <1>5, <2>1, <2>2
<1>10. CASE RemoteRead
  <2>1. s' = [s EXCEPT !.tDesc = Tail(@)]
        /\ isr' = isr /\ task' = task /\ own' = own /\ finished' = finished
    BY <1>10 DEF RemoteRead, remStep
  <2>2. \E f : irq' = irq \cup Almost(f, "tEmpty") \/ irq' = irq \cup Almost(f, "tEmpty") \cup {"tError"}
    BY <1>10 DEF RemoteRead
  <2> QED BY <1>3, <1>4, <1>5, <2>1, <2>2
<1>11. CASE RemoteStop
  <2>1. s' = [s EXCEPT !.tDesc = <<>>] /\ irq' = irq \cup {"tDone"}
        /\ isr' = isr /\ task' = task /\ own' = own /\ finished' = finished
    BY <1>11 DEF RemoteStop, remStep
  <2> QED BY <1>3, <1>5, <2>1
<1> QED BY <1>6, <1>7, <1>8, <1>9, <1>10, <1>11 DEF Remote, RemoteProgress

\* The engine runs one descriptor.
LEMMA RunKeeps ==
  ASSUME AnswersInv, Controlled, s.cDesc # <<>>,
         NEW e \in [of : Nat, phase : {"write", "read"}, got : Nat, proto : OwnProtos \cup {"none"}], e.of = s.txn,
         "cDone" \notin irq \cup isr.vec, Run(e, Head(s.cDesc)), isr' = isr, task' = task
  PROVE  Controlled'
<1> DEFINE t == s'
           x == Head(s.cDesc)
           cd == Tail(s.cDesc)
<1>1. /\ QueueInv /\ TaskInv /\ OthersInv /\ EngineInv /\ WaitingInv /\ RunningInv
  BY Parts
<1>2. s.inPlay # None /\ ~ Waiting
  BY <1>1 DEF EngineInv, WaitingInv
<1>3. /\ s.cDesc \in Seq(Descriptors) /\ x \in Descriptors /\ cd \in Seq(Descriptors)
      /\ x \in ToSet(s.cDesc) /\ ToSet(cd) \subseteq ToSet(s.cDesc)
  <2>1. s.cDesc \in Seq(Descriptors)
    BY <1>1 DEF EngineInv
  <2> QED BY <2>1, HeadAndTail
<1>4. NoStartAfterEnd(cd) /\ (x \in Ends => ToSet(cd) \cap Starts = {})
  <2>1. \A k, l \in DOMAIN s.cDesc : k < l /\ s.cDesc[k] \in Ends => s.cDesc[l] \notin Starts
    BY <1>1 DEF EngineInv
  <2>2. /\ Len(s.cDesc) \in Nat /\ DOMAIN s.cDesc = 1 .. Len(s.cDesc) /\ x = s.cDesc[1]
        /\ DOMAIN cd = 1 .. Len(s.cDesc) - 1 /\ \A k \in 1 .. Len(s.cDesc) - 1 : cd[k] = s.cDesc[k + 1]
    BY <1>3
  <2> HIDE DEF x, cd
  <2>3. NoStartAfterEnd(cd)
    <3> SUFFICES ASSUME NEW k \in DOMAIN cd, NEW l \in DOMAIN cd, k < l, cd[k] \in Ends PROVE cd[l] \notin Starts
      BY DEF NoStartAfterEnd
    <3>1. k + 1 \in DOMAIN s.cDesc /\ l + 1 \in DOMAIN s.cDesc /\ k + 1 < l + 1
      BY <2>2
    <3> QED BY <2>1, <2>2, <3>1
  <2>4. ASSUME x \in Ends, NEW l \in DOMAIN cd PROVE cd[l] \notin Starts
    <3>1. 1 \in DOMAIN s.cDesc /\ l + 1 \in DOMAIN s.cDesc /\ 1 < l + 1
      BY <2>2
    <3> QED BY <2>1, <2>2, <2>4, <3>1
  <2> QED BY <2>3, <2>4 DEF ToSet
<1>5. DOMAIN s = Fields /\ s.cRx \in Seq(Received)
  BY <1>1 DEF AnswersInv, Whole, EngineInv
<1>6. Arrives(e) \in Received
  <2> DEFINE k == e.got + 1
             n == IF e.proto \in Blocks THEN 1 + ReplySize ELSE Answered(e.proto)
             of == <<"own", e.of>>
  <2>1. /\ of \in {"own"} \X Nat /\ k \in Nat /\ k - 1 \in Nat /\ ReplySize \in Nat /\ 0 \in Nat
    BY SmbusAssumption
  <2>2. Arrives(e) \in {Byte(of, "size", ReplySize), Byte(of, "pec", 0), Byte(of, "data", k - 1), Byte(of, "data", k)}
    BY DEF Arrives
  <2> HIDE DEF k, of
  <2> QED BY <2>1, <2>2 DEF Byte, Received
<1>7. \A f : Almost(f, "cEmpty") \subseteq {"cEmpty"}
  BY AlmostIs
<1>8. \/ /\ x \in Ends /\ own' = IdleEngine /\ finished' = finished \cup {e.of}
         /\ t = [s EXCEPT !.cDesc = Tail(@), !.go = FALSE]
         /\ \E f : irq' = irq \cup {"cDone"} \cup Almost(f, "cEmpty")
      \/ /\ x \in Fetches /\ own' = [e EXCEPT !.phase = "read", !.got = @ + 1] /\ finished' = finished
         /\ t = [s EXCEPT !.cDesc = Tail(@), !.cRx = Append(@, Arrives(e))]
         /\ \E f : irq' = irq \cup Almost(f, "cEmpty")
      \/ /\ own' = e /\ finished' = finished
         /\ t = [s EXCEPT !.cDesc = Tail(@)]
         /\ \E f : irq' = irq \cup Almost(f, "cEmpty")
  <2>1. CASE x \in Ends
    BY <2>1 DEF Run, Ends
  <2>2. CASE x \in Fetches
    BY <2>2 DEF Run, Fetches
  <2>3. CASE x \notin Ends \cup Fetches
    BY <2>3 DEF Run, Ends, Fetches
  <2> QED BY <2>1, <2>2, <2>3
<1>9. /\ t.inst = s.inst /\ t.queue = s.queue /\ t.inPlay = s.inPlay /\ t.txn = s.txn
      /\ t.ctlrOn = s.ctlrOn /\ t.cThr = s.cThr /\ t.cDesc = cd
      /\ t.cRx = s.cRx \/ (x \in Fetches /\ t.cRx = Append(s.cRx, Arrives(e)))
  <2> HIDE DEF t, x
  <2> QED BY <1>5, <1>8 DEF Fields
<1>10. \/ own'.phase = "idle" /\ x \in Ends /\ ~ t.go /\ irq' \subseteq irq \cup {"cDone", "cEmpty"} /\ s.txn \in finished'
       \/ irq' \subseteq irq \cup {"cEmpty"} /\ finished' = finished
  <2>1. CASE x \in Ends /\ own' = IdleEngine /\ finished' = finished \cup {e.of}
             /\ t = [s EXCEPT !.cDesc = Tail(@), !.go = FALSE]
             /\ \E f : irq' = irq \cup {"cDone"} \cup Almost(f, "cEmpty")
    <3>1. ~ t.go
      <4>1. t = [[s EXCEPT !.cDesc = Tail(@)] EXCEPT !.go = FALSE]
        BY <2>1
      <4> HIDE DEF t
      <4> QED BY <1>5, <4>1 DEF Fields
    <3> QED BY <1>7, <2>1, <3>1 DEF IdleEngine
  <2>2. CASE finished' = finished /\ \E f : irq' = irq \cup Almost(f, "cEmpty")
    BY <1>7, <2>2
  <2> HIDE DEF t, x
  <2> QED BY <1>8, <2>1, <2>2
<1>11. irq \subseteq irq' /\ IpFrame
  <2>1. irq \subseteq irq'
    BY <1>8
  <2> QED BY <1>9, <2>1 DEF IpFrame
<1>12. /\ own' \in [of : Nat, phase : {"idle", "write", "read"}, got : Nat, proto : OwnProtos \cup {"none"}]
       /\ own'.phase # "idle" => own'.of = s.txn
  <2>1. \/ own' = IdleEngine
        \/ own' = [e EXCEPT !.phase = "read", !.got = @ + 1]
        \/ own' = e
    BY <1>8
  <2>2. CASE own' = IdleEngine
    BY <2>2 DEF IdleEngine
  <2>3. CASE own' = [e EXCEPT !.phase = "read", !.got = @ + 1]
    <3> DEFINE g == [e EXCEPT !.phase = "read"]
    <3>1. g \in [of : Nat, phase : {"write", "read"}, got : Nat, proto : OwnProtos \cup {"none"}] /\ g.of = s.txn
      OBVIOUS
    <3>2. own' = [g EXCEPT !.got = g.got + 1]
      BY <2>3
    <3> HIDE DEF g
    <3> QED BY <3>1, <3>2
  <2>4. CASE own' = e
    BY <2>4
  <2> QED BY <2>1, <2>2, <2>3, <2>4
<1> HIDE DEF t, x, cd
<1>13. t.cRx \in Seq(Received)
  <2>1. CASE t.cRx = s.cRx
    BY <1>5, <2>1
  <2>2. CASE t.cRx = Append(s.cRx, Arrives(e)) /\ x \in Fetches
    <3>1. s.cRx \in Seq(Received) /\ Arrives(e) \in Received
      BY <1>5, <1>6, <2>2
    <3> QED BY <2>2, <3>1
  <2> QED BY <1>9, <2>1, <2>2
<1>14. Queue' = Queue
  BY <1>9 DEF Queue, t
<1>15. EngineInv'
  <2>1. irq' \subseteq Events
    BY <1>1, <1>10, EventsApart DEF EngineInv
  <2>2. "cDone" \in irq' \cup isr.vec => own'.phase = "idle" /\ ~ t.go /\ ToSet(cd) \cap Starts = {}
    BY <1>4, <1>10
  <2>3. \A k, l \in DOMAIN cd : k < l /\ cd[k] \in Ends => cd[l] \notin Starts
    BY <1>4 DEF NoStartAfterEnd
  <2> QED BY <1>1, <1>2, <1>3, <1>9, <1>12, <1>13, <1>14, <2>1, <2>2, <2>3 DEF EngineInv, t
<1>16. /\ "cData" \in irq' => "cData" \in irq
       /\ Play.state \notin ReadStates => s'.cRx = <<>> /\ ToSet(s'.cDesc) \cap Fetches = {}
       /\ "cDone" \in irq' \/ ToSet(s'.cDesc) \cap Ends # {} => ComesToEnd
       /\ "cDone" \in Raised' => s.txn \in finished'
  <2>1. Play.state \notin ReadStates => s.cRx = <<>> /\ ToSet(s.cDesc) \cap Fetches = {}
    BY <1>1, <1>2 DEF RunningInv
  <2>2. Play.state \notin ReadStates => t.cRx = <<>> /\ ToSet(t.cDesc) \cap Fetches = {}
    BY <1>3, <1>9, <2>1
  <2>3. "cDone" \in irq' \/ ToSet(t.cDesc) \cap Ends # {} => ComesToEnd
    BY <1>3, <1>9, <1>10 DEF ComesToEnd
  <2>4. "cDone" \in Raised' => s.txn \in finished'
    <3>1. "cDone" \in Raised => s.txn \in finished
      BY <1>1, <1>2 DEF RunningInv
    <3>2. "cDone" \in Raised' => "cDone" \in irq' \/ "cDone" \in Raised
      BY <1>14 DEF Raised
    <3>3. "cDone" \notin irq
      OBVIOUS
    <3>4. "cDone" \in irq' => s.txn \in finished'
      BY <1>10, <3>3
    <3>5. s.txn \in finished => s.txn \in finished'
      BY <1>10
    <3> QED BY <3>1, <3>2, <3>4, <3>5
  <2> QED BY <1>10, <2>2, <2>3, <2>4 DEF t
<1> QED BY <1>2, <1>11, <1>15, <1>16, IpKeeps

\* The controller engine.
LEMMA EngineKeeps ==
  ASSUME AnswersInv, Controlled, Engine \/ EngineNack
  PROVE  Controlled'
<1>1. EngineInv /\ WaitingInv /\ RunningInv
  BY Parts
<1>2. CASE EngineStart
  <2> DEFINE e == [of |-> s.txn, phase |-> "write", got |-> 0,
                   proto |-> IF s.inPlay = None THEN "none" ELSE s.inst[s.inPlay].proto]
  <2>1. s.go /\ s.cDesc # <<>> /\ Run(e, Head(s.cDesc)) /\ isr' = isr /\ task' = task
    BY <1>2 DEF EngineStart, ownStep
  <2>2. s.inPlay # None /\ ~ Waiting /\ "cDone" \notin irq \cup isr.vec
    BY <1>1, <2>1 DEF EngineInv, WaitingInv
  <2>3. Play.proto \in OwnProtos /\ s.txn \in Nat
    BY <1>1, <2>2 DEF RunningInv, AnswersInv
  <2>4. e \in [of : Nat, phase : {"write", "read"}, got : Nat, proto : OwnProtos \cup {"none"}] /\ e.of = s.txn
    BY <2>2, <2>3 DEF Play
  <2> HIDE DEF e
  <2> QED BY <2>1, <2>2, <2>4, RunKeeps
<1>3. CASE EngineStep
  <2>1. own.phase # "idle" /\ s.cDesc # <<>> /\ Run(own, Head(s.cDesc)) /\ isr' = isr /\ task' = task
    BY <1>3 DEF EngineStep, ownStep
  <2>2. "cDone" \notin irq \cup isr.vec /\ s.inPlay # None
        /\ own \in [of : Nat, phase : {"write", "read"}, got : Nat, proto : OwnProtos \cup {"none"}] /\ own.of = s.txn
    BY <1>1, <2>1 DEF EngineInv
  <2> QED BY <2>1, <2>2, RunKeeps
<1>4. CASE EngineTimeout \/ EngineNack
  <2>1. /\ own.phase # "idle" /\ own' = IdleEngine /\ s' = [s EXCEPT !.go = FALSE]
        /\ isr' = isr /\ task' = task /\ finished' = finished
        /\ irq' = irq \cup {"cError"} \/ irq' = irq \cup {"tError"}
    BY <1>4 DEF EngineTimeout, EngineNack, ownStep
  <2>2. "cDone" \notin irq \cup isr.vec /\ (s.inPlay = None => s.ctlrOn) /\ (s.inPlay # None => ~ Waiting)
    BY <1>1, <2>1 DEF EngineInv, WaitingInv, Quiet
  <2>3. /\ s'.inst = s.inst /\ s'.queue = s.queue /\ s'.inPlay = s.inPlay /\ s'.txn = s.txn
        /\ s'.ctlrOn = s.ctlrOn /\ s'.cThr = s.cThr /\ s'.cDesc = s.cDesc /\ s'.cRx = s.cRx /\ ~ s'.go
    BY <2>1 DEF AnswersInv, Whole, Fields
  <2>4. irq' \subseteq irq \cup TargetBits \cup {"cError"} /\ irq \subseteq irq'
    BY <2>1 DEF TargetBits
  <2> QED BY <2>1, <2>2, <2>3, <2>4, StopsKeeps DEF IpFrame
<1> QED BY <1>2, <1>3, <1>4 DEF Engine

-----------------------------------------------------------------------------
(* Every command is answered.                                               *)

\* A step that starts no command: it leaves the answers alone, or answers the command
\* in play, or the command has met a transfer.
LEMMA AnsweredKeeps ==
  ASSUME AnswersInv, AllAnswered, collided \subseteq collided', finished \subseteq finished', s'.txn = s.txn,
         \/ s'.answers = s.answers /\ (s'.inPlay = s.inPlay \/ ~ Undisturbed(s.txn)')
         \/ \E r \in Results : /\ s'.answers = Append(s.answers, [id |-> s.txn, result |-> r])
                               /\ r = "ok" /\ Undisturbed(s.txn)' => s.txn \in finished'
  PROVE  AllAnswered'
<1> DEFINE U(n) == \A k \in 1 .. n : <<"own", k>> \notin collided'
           V(n) == \A k \in 1 .. n : <<"own", k>> \notin collided
           t == s'
           a == s.answers
           n == s.txn
           Answer == [id : 0 .. n, result : Results]
<1>1. /\ \A k : U(k) => V(k)
      /\ \A x \in DOMAIN a : a[x].result = "ok" /\ V(a[x].id) => a[x].id \in finished
      /\ \A k \in 1 .. n : V(k) => (k = n /\ s.inPlay # None) \/ \E x \in DOMAIN a : a[x].id = k
  BY DEF AllAnswered, Undisturbed
<1>2. a \in Seq(Answer) /\ n \in Nat /\ t.txn = n
  BY DEF AnswersInv
<1>3. ASSUME /\ \A x \in DOMAIN t.answers : t.answers[x].result = "ok" /\ U(t.answers[x].id) => t.answers[x].id \in finished'
             /\ \A k \in 1 .. n : U(k) => (k = n /\ t.inPlay # None) \/ \E x \in DOMAIN t.answers : t.answers[x].id = k
      PROVE  AllAnswered'
  BY <1>2, <1>3 DEF AllAnswered, Undisturbed
<1>4. Undisturbed(s.txn)' <=> U(n)
  BY <1>2 DEF Undisturbed
<1>5. CASE t.answers = a /\ (t.inPlay = s.inPlay \/ ~ U(n))
  <2> HIDE DEF U, V, t, a, n
  <2> QED BY <1>1, <1>3, <1>5
<1>6. ASSUME NEW r \in Results, t.answers = Append(a, [id |-> n, result |-> r]), r = "ok" /\ U(n) => n \in finished'
      PROVE  AllAnswered'
  <2> DEFINE x == [id |-> n, result |-> r]
             b == Append(a, x)
  <2>1. x \in Answer /\ x.id = n /\ x.result = r
    BY <1>2
  <2> HIDE DEF x, Answer, a, n, U, V, t
  <2>2. /\ Len(a) \in Nat /\ DOMAIN a = 1 .. Len(a) /\ DOMAIN b = 1 .. Len(a) + 1
        /\ \A k \in 1 .. Len(a) : b[k] = a[k]
        /\ b[Len(a) + 1] = x
    BY <1>2, <2>1
  <2> HIDE DEF b
  <2>3. ASSUME NEW k \in DOMAIN b, b[k].result = "ok", U(b[k].id) PROVE b[k].id \in finished'
    <3>1. CASE k \in DOMAIN a
      BY <1>1, <2>2, <2>3, <3>1
    <3>2. CASE k \notin DOMAIN a
      <4>1. b[k] = x
        BY <2>2, <3>2
      <4> QED BY <1>6, <2>1, <2>3, <4>1
    <3> QED BY <3>1, <3>2
  <2>4. ASSUME NEW k \in 1 .. n, U(k) PROVE \E l \in DOMAIN b : b[l].id = k
    <3>1. CASE k = n
      <4>1. Len(a) + 1 \in DOMAIN b /\ b[Len(a) + 1].id = k
        BY <2>1, <2>2, <3>1
      <4> QED BY <4>1
    <3>2. CASE k # n
      <4>1. PICK l \in DOMAIN a : a[l].id = k
        BY <1>1, <2>4, <3>2
      <4>2. l \in DOMAIN b /\ b[l].id = k
        BY <2>2, <4>1
      <4> QED BY <4>2
    <3> QED BY <3>1, <3>2
  <2>5. t.answers = b
    BY <1>6 DEF b, x
  <2> QED BY <1>3, <2>3, <2>4, <2>5
<1>7. \/ t.answers = a /\ (t.inPlay = s.inPlay \/ ~ U(n))
      \/ \E r \in Results : t.answers = Append(a, [id |-> n, result |-> r]) /\ (r = "ok" /\ U(n) => n \in finished')
  BY <1>4
<1> QED BY <1>5, <1>6, <1>7

\* A command is claimed: what was claimed before it has been answered.
LEMMA ClaimAnswered ==
  ASSUME AnswersInv, ControlInv, AllAnswered, Claim
  PROVE  AllAnswered' /\ ControlInv'
<1>1. s' = [s EXCEPT !.txn = @ + 1, !.inPlay = task.inst] /\ collided' = collided /\ finished' = finished /\ task.pc = "claim"
  BY DEF Claim, taskStep, hwVars
<1>2. s'.txn = s.txn + 1 /\ s'.inPlay = task.inst /\ s'.answers = s.answers /\ s.txn \in Nat
  BY <1>1 DEF AnswersInv, Whole, Fields
<1>3. Undisturbed(s.txn + 1) => Undisturbed(s.txn)
  <2>1. \A k \in 1 .. s.txn : k \in 1 .. s.txn + 1
    BY <1>2
  <2> QED BY <2>1 DEF Undisturbed
<1>4. Undisturbed(s.txn) => s.inPlay = None /\ task.inst # None
  BY <1>1, Parts, TaskIs DEF ControlInv, TaskInv
<1>5. AllAnswered'
  <2> DEFINE V(k) == \A j \in 1 .. k : <<"own", j>> \notin collided
             t == s'
  <2>1. /\ \A x \in DOMAIN s.answers : s.answers[x].result = "ok" /\ V(s.answers[x].id) => s.answers[x].id \in finished
        /\ \A k \in 1 .. s.txn : V(k) => (k = s.txn /\ s.inPlay # None) \/ \E x \in DOMAIN s.answers : s.answers[x].id = k
        /\ V(s.txn) => s.inPlay = None /\ task.inst # None
        /\ V(s.txn + 1) => V(s.txn)
    BY <1>3, <1>4 DEF AllAnswered, Undisturbed
  <2>2. 1 .. s.txn + 1 = (1 .. s.txn) \cup {s.txn + 1}
    BY <1>2
  <2> HIDE DEF V
  <2>3. \A k \in 1 .. s.txn + 1 :
          V(k) => (k = s.txn + 1 /\ task.inst # None) \/ \E x \in DOMAIN s.answers : s.answers[x].id = k
    BY <2>1, <2>2
  <2>4. \A k : Undisturbed(k)' <=> V(k)
    BY <1>1 DEF Undisturbed, V
  <2> QED BY <1>1, <1>2, <2>1, <2>3, <2>4 DEF AllAnswered, Undisturbed, V
<1>6. ControlInv'
  <2>1. Undisturbed(s.txn)' => Undisturbed(s.txn + 1)
    BY <1>1, <1>2 DEF Undisturbed
  <2>2. Undisturbed(s.txn) => Controlled'
    BY ClaimControlled DEF ControlInv
  <2> QED BY <1>3, <2>1, <2>2 DEF ControlInv
<1> QED BY <1>5, <1>6

\* A step that starts and answers no command.
LEMMA SameOnce ==
  ASSUME OnceInv, Same(s, s'), collided' = collided, finished \subseteq finished', Controlled => Controlled'
  PROVE  OnceInv'
<1>1. AnswersInv /\ AllAnswered /\ s'.txn = s.txn /\ s'.answers = s.answers /\ s'.inPlay = s.inPlay
  BY DEF OnceInv, Same
<1>2. AnswersInv'
  BY <1>1, SameKeeps
<1>3. AllAnswered'
  BY <1>1, AnsweredKeeps
<1>4. Undisturbed(s.txn)' => Undisturbed(s.txn)
  BY <1>1 DEF Undisturbed
<1>5. ControlInv'
  BY <1>4 DEF ControlInv, OnceInv
<1> QED BY <1>2, <1>3, <1>5 DEF OnceInv

\* Every step keeps the invariant.
LEMMA OnceKept ==
  ASSUME OnceInv, [Next]_vars
  PROVE  OnceInv'
<1>1. AnswersInv /\ ControlInv /\ AllAnswered /\ Whole(s) /\ AnswersInv'
  BY NextKeeps DEF OnceInv, AnswersInv
<1>2. CASE UNCHANGED vars
  <2>1. s' = s /\ irq' = irq /\ isr' = isr /\ task' = task /\ own' = own /\ finished' = finished /\ collided' = collided
    BY <1>2 DEF vars, hwVars
  <2>2. Same(s, s')
    BY <1>1, <2>1, Itself
  <2>3. Controlled => Controlled'
    <3>1. /\ Queue' = Queue /\ Play' = Play /\ Raised' = Raised /\ (Quiet' <=> Quiet)
          /\ (Waiting' <=> Waiting) /\ (Draining' <=> Draining)
      BY <2>1 DEF Queue, Play, Raised, Quiet, Waiting, Draining
    <3>2. QueueInv /\ TaskInv /\ OthersInv /\ EngineInv => QueueInv' /\ TaskInv' /\ OthersInv' /\ EngineInv'
      BY <2>1, <3>1 DEF QueueInv, TaskInv, OthersInv, EngineInv
    <3>3. WaitingInv /\ RunningInv => WaitingInv' /\ RunningInv'
      BY <2>1, <3>1 DEF WaitingInv, RunningInv
    <3> QED BY <2>1, <3>1, <3>2, <3>3 DEF Controlled, Ordered
  <2> QED BY <2>1, <2>2, <2>3, SameOnce
<1>3. CASE HandleEvent
  <2>1. PICK i \in Instances :
          /\ s' = Fsm([s EXCEPT !.queue[i] = Tail(@)], i, Head(s.queue[i]))
          /\ collided \subseteq collided' /\ finished' = finished
    <3>1. PICK i \in Instances :
            /\ s' = Fsm([s EXCEPT !.queue[i] = Tail(@)], i, Head(s.queue[i]))
            /\ \E x : collided' = collided \cup x \/ collided' = collided
            /\ finished' = finished
      BY <1>3 DEF HandleEvent, hwVars
    <3> QED BY <3>1
  <2>2. Same(s, s') \/ Over(s, i, s')
    <3> DEFINE d == [s EXCEPT !.queue[i] = Tail(@)]
    <3>1. Same(s, d)
      BY <1>1 DEF Same, Whole, Fields
    <3> HIDE DEF d
    <3>2. Handled(d, i, Fsm(d, i, Head(s.queue[i])))
      BY <3>1, FsmHandled DEF Same
    <3>3. Handled(d, i, s')
      BY <2>1, <3>2 DEF d
    <3> QED BY <3>1, <3>3 DEF Handled, Same, Over
  <2>3. s'.txn = s.txn
    BY <2>2 DEF Same, Over
  <2>4. CASE Undisturbed(s.txn)'
    <3>1. /\ Controlled'
          /\ \/ Same(s, s')
             \/ /\ s'.inPlay = None /\ Whole(s') /\ s'.txn = s.txn
                /\ \E r \in Results : /\ s'.answers = Append(s.answers, [id |-> s.txn, result |-> r])
                                      /\ r = "ok" => s.txn \in finished
      BY <1>1, <1>3, <2>4, HandleControlled
    <3>2. \/ s'.answers = s.answers /\ s'.inPlay = s.inPlay
          \/ \E r \in Results : /\ s'.answers = Append(s.answers, [id |-> s.txn, result |-> r])
                                /\ r = "ok" /\ Undisturbed(s.txn)' => s.txn \in finished'
      BY <2>1, <3>1 DEF Same
    <3>3. AllAnswered'
      BY <1>1, <2>1, <2>3, <3>2, AnsweredKeeps
    <3> QED BY <1>1, <3>1, <3>3 DEF OnceInv, ControlInv
  <2>5. CASE ~ Undisturbed(s.txn)'
    <3>1. \/ s'.answers = s.answers
          \/ \E r \in Results : s'.answers = Append(s.answers, [id |-> s.txn, result |-> r])
      BY <2>2 DEF Same, Over
    <3>2. AllAnswered'
      BY <1>1, <2>1, <2>3, <2>5, <3>1, AnsweredKeeps
    <3> QED BY <1>1, <2>5, <3>2 DEF OnceInv, ControlInv
  <2> QED BY <2>4, <2>5
<1>4. CASE IsrEnter \/ IsrController \/ IsrExit
  <2>1. Same(s, s')
    BY <1>1, <1>4, IsrSame
  <2>2. collided' = collided /\ finished' = finished
    BY <1>4 DEF IsrEnter, IsrController, IsrExit, hwVars
  <2>3. Controlled => Controlled'
    BY <1>1, <1>4, IsrEnterKeeps, IsrControllerKeeps, IsrExitKeeps
  <2> QED BY <2>1, <2>2, <2>3, SameOnce
<1>5. CASE Claim
  BY <1>1, <1>5, ClaimAnswered DEF OnceInv
<1>6. CASE Initiate /\ ~ Claim
  <2>1. \/ Fill \/ RaiseNext \/ Disable \/ Enable
        \/ \E i \in Controllers, p \in OwnProtos, n \in Nat, pec \in BOOLEAN : Check(i, p, n, pec)
    <3>1. ASSUME NEW i \in Controllers, NEW p \in OwnProtos, NEW pec \in OwnPecs,
                 NEW n \in IF p = "blockWrite" \/ p = "blockCall" THEN {k + 1 : k \in Sizes} ELSE {Width},
                 Check(i, p, n, pec)
          PROVE  n \in Nat /\ pec \in BOOLEAN
      BY SmbusAssumption
    <3> QED BY <1>6, <3>1 DEF Initiate
  <2>2. Same(s, s')
    BY <1>1, <2>1, TaskSame
  <2>3. collided' = collided /\ finished' = finished
    BY <2>1 DEF Fill, RaiseNext, Disable, Enable, Check, taskStep, hwVars
  <2>4. Controlled => Controlled'
    BY <1>1, <2>1, CheckKeeps, FillControlled, RaiseControlled, DisableControlled, EnableControlled
  <2> QED BY <2>2, <2>3, <2>4, SameOnce
<1>7. CASE Remote \/ RemoteProgress \/ Engine \/ EngineNack
  <2>1. Same(s, s')
    BY <1>1, <1>7, BusSame
  <2>2. collided' = collided
    BY <1>7 DEF Remote, RemoteProgress, Engine, EngineNack, RemoteStart, RemoteAbandon, RemoteByte, RemoteAnswered,
                RemoteRestart, RemoteRead, RemoteStop, RemoteTimeout, EngineStart, EngineStep, EngineTimeout,
                remStep, ownStep
  <2>3. finished \subseteq finished'
    <3>1. CASE Remote \/ RemoteProgress
      BY <3>1 DEF Remote, RemoteProgress, RemoteStart, RemoteAbandon, RemoteByte, RemoteAnswered,
                  RemoteRestart, RemoteRead, RemoteStop, RemoteTimeout, remStep
    <3>2. ASSUME NEW e, NEW x, Run(e, x) PROVE finished \subseteq finished'
      BY <3>2 DEF Run
    <3>3. CASE Engine \/ EngineNack
      BY <3>2, <3>3 DEF Engine, EngineNack, EngineStart, EngineStep, EngineTimeout
    <3> QED BY <1>7, <3>1, <3>3
  <2>4. Controlled => Controlled'
    BY <1>1, <1>7, RemoteKeeps, EngineKeeps
  <2> QED BY <2>1, <2>2, <2>3, <2>4, SameOnce
<1> QED BY <1>2, <1>3, <1>4, <1>5, <1>6, <1>7 DEF Next, Isr

\* The driver starts with nothing to do.
LEMMA InitOnce ==
  ASSUME Init PROVE OnceInv
<1>1. AnswersInv
  BY InitHolds
<1>2. /\ s.inst = [i \in Instances |-> FreshData] /\ s.queue = [i \in Instances |-> <<>>]
      /\ s.inPlay = None /\ s.txn = 0 /\ s.ctlrOn = TRUE
      /\ s.cRx = <<>> /\ s.cDesc = <<>> /\ s.cThr = 1 /\ s.answers = <<>>
  BY DEF Init
<1>3. irq = {} /\ isr = IdleIsr /\ task = IdleTask /\ own = IdleEngine /\ collided = {}
  BY DEF Init
<1>4. DOMAIN <<>> = {} /\ ToSet(<<>>) = {} /\ <<>> \in Seq(Events) /\ <<>> \in Seq(Descriptors) /\ <<>> \in Seq(Received)
  BY DEF ToSet
<1>5. QueueInv
  BY <1>2, <1>3, <1>4 DEF QueueInv, IdleIsr, IdleTask
<1>6. TaskInv
  BY <1>2, <1>3 DEF TaskInv, IdleTask
<1>7. OthersInv
  BY <1>2, <1>4 DEF OthersInv, Clean, FreshData, ControllerStates
<1>8. EngineInv
  <2>1. /\ own \in [of : Nat, phase : {"idle", "write", "read"}, got : Nat, proto : OwnProtos \cup {"none"}]
        /\ isr.vec = {}
    BY <1>3 DEF IdleEngine, IdleIsr
  <2> QED BY <1>2, <1>3, <1>4, <2>1 DEF EngineInv
<1>9. Controlled
  BY <1>2, <1>5, <1>6, <1>7, <1>8 DEF Controlled, WaitingInv, RunningInv
<1>10. AllAnswered
  <2>1. 1 .. 0 = {}
    OBVIOUS
  <2> QED BY <1>2, <1>4, <2>1 DEF AllAnswered
<1> QED BY <1>1, <1>9, <1>10 DEF OnceInv, ControlInv

\* The commands of the application: as long as no command meets a transfer to its own
\* instance, each one that the task starts is answered once, before the next one can
\* be started, and with a success only if the bus has run it to its end, in whatever order
\* interrupts, the task, the engine and a remote controller take their steps
\* (xSMBusControllerInitiateCommand, vSMBusInterruptHandler, vSMBusEventQueueHandle).
THEOREM EveryCommandAnswered == Spec => []OnceInv /\ []AnsweredOnce
<1>1. OnceInv /\ [Next]_vars => OnceInv'
  BY OnceKept
<1>2. Init => OnceInv
  BY InitOnce
<1>3. OnceInv => AnsweredOnce
  <2> SUFFICES ASSUME OnceInv PROVE AnsweredOnce
    OBVIOUS
  <2>1. AtMostOnce /\ AllAnswered /\ ControlInv
    BY DEF OnceInv, AnswersInv
  <2>2. Undisturbed(s.txn) => \A i \in Instances \ {s.inPlay} : s.inst[i].state \notin ControllerStates
    BY <2>1, Parts DEF ControlInv, OthersInv
  <2> QED BY <2>1, <2>2 DEF AnsweredOnce, AllAnswered
<1> QED BY <1>1, <1>2, <1>3, PTL DEF Spec
=============================================================================
