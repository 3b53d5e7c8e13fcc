-------------------------- MODULE AmiCommandProofs --------------------------
(***************************************************************************)
(* Proofs about the command path of the AMI driver.                        *)
(***************************************************************************)
EXTENDS AmiCommandProps, FiniteSetTheorems, TLAPS

LEMMA MaxCidNat == MaxCid \in Nat
  BY CommandAssumption

\* The initial state is well typed.
LEMMA InitTypes == Init => TypeOK
<1> SUFFICES ASSUME Init PROVE TypeOK
  OBVIOUS
<1>1. CallTypeOK
  BY MaxCidNat DEF Init, CallTypeOK, Cids
<1>2. WaitTypeOK
  BY DEF Init, WaitTypeOK
<1>3. DriverTypeOK
  <2>1. sema \in [Pages -> Threads \cup {NoThread}]
    BY DEF Init
  <2>2. nextCid \in 0 .. MaxCid + 1
    BY MaxCidNat DEF Init
  <2>. QED BY <2>2 DEF Init, DriverTypeOK
<1>4. ListTypeOK
  BY DEF Init, ListTypeOK
<1>5. ResponseTypeOK
  BY DEF Init, ResponseTypeOK
<1>6. QueueTypeOK
  BY DEF Init, QueueTypeOK
<1>. QED BY <1>1, <1>2, <1>3, <1>4, <1>5, <1>6 DEF TypeOK

\* The fields a call writes keep their types.
LEMMA CallTypes == TypeOK /\ Next => CallTypeOK'
<1> SUFFICES ASSUME TypeOK, Next PROVE CallTypeOK'
  OBVIOUS
<1> USE DEF TypeOK, CallTypeOK, callVars
<1>1. ASSUME NEW t \in Threads, Refuse(t) PROVE CallTypeOK'
  BY <1>1 DEF Refuse
<1>2. ASSUME NEW t \in Threads, Call(t) PROVE CallTypeOK'
  BY <1>2 DEF Call
<1>3. ASSUME NEW t \in Threads, GiveUp(t) PROVE CallTypeOK'
  BY <1>3 DEF GiveUp
<1>4. ASSUME NEW t \in Threads, Killed(t) PROVE CallTypeOK'
  BY <1>4 DEF Killed
<1>5. ASSUME NEW t \in Threads, Acquire(t) PROVE CallTypeOK'
  BY <1>5 DEF Acquire
<1>6. ASSUME NEW t \in Threads, GetCid(t) PROVE CallTypeOK'
  BY <1>6 DEF GetCid, FreeCids
<1>7. ASSUME NEW t \in Threads, Lock(t) PROVE CallTypeOK'
  BY <1>7 DEF Lock
<1>8. ASSUME NEW t \in Threads, Write(t) PROVE CallTypeOK'
  BY <1>8 DEF Write
<1>9. ASSUME NEW t \in Threads, WriteFails(t) PROVE CallTypeOK'
  BY <1>9 DEF WriteFails
<1>10. ASSUME NEW t \in Threads, Add(t) PROVE CallTypeOK'
  BY <1>10 DEF Add
<1>11. ASSUME NEW t \in Threads, Wake(t) PROVE CallTypeOK'
  BY <1>11 DEF Wake
<1>12. ASSUME NEW t \in Threads, CheckTimedOut(t) PROVE CallTypeOK'
  BY <1>12 DEF CheckTimedOut
<1>13. ASSUME NEW t \in Threads, CheckRcode(t) PROVE CallTypeOK'
  BY <1>13 DEF CheckRcode
<1>14. ASSUME NEW t \in Threads, Abort(t) PROVE CallTypeOK'
  BY <1>14 DEF Abort
<1>15. ASSUME NEW t \in Threads, GetResponse(t) PROVE CallTypeOK'
  BY <1>15 DEF GetResponse
<1>16. ASSUME NEW t \in Threads, Done(t) PROVE CallTypeOK'
  BY <1>16, MaxCidNat DEF Done, Cids
<1>17. ASSUME NEW t \in Threads, CmdComplete(t) PROVE CallTypeOK'
  BY <1>17 DEF CmdComplete, ResponseTypeOK, Requests
<1>18. ASSUME NEW t \in Threads,
         Expire(t) \/ ScanOne(t)
      PROVE CallTypeOK'
  BY <1>18 DEF Expire, ScanOne
<1>19. CASE Stop \/ ReadResponse \/ Unexpected \/ StartCheck
            \/ FlagTimeout \/ EndCheck
  BY <1>19 DEF Stop, ReadResponse, Unexpected, StartCheck, FlagTimeout, EndCheck
<1>20. CASE Amc
  BY <1>20 DEF Amc, AmcTake, AmcAnswer
<1> HIDE DEF TypeOK, CallTypeOK, callVars
<1>. QED
  BY <1>1, <1>2, <1>3, <1>4, <1>5, <1>6, <1>7, <1>8, <1>9, <1>10, <1>11,
     <1>12, <1>13, <1>14, <1>15, <1>16, <1>17, <1>18, <1>19, <1>20
  DEF Next, Step, ResponseThread

\* So do the fields the response thread writes.
LEMMA WaitTypes == TypeOK /\ Next => WaitTypeOK'
<1> SUFFICES ASSUME TypeOK, Next PROVE WaitTypeOK'
  OBVIOUS
<1> USE DEF TypeOK, WaitTypeOK, waitVars
<1>1. ASSUME NEW t \in Threads, Expire(t) PROVE WaitTypeOK'
  BY <1>1 DEF Expire
<1>2. ASSUME NEW t \in Threads, Done(t) PROVE WaitTypeOK'
  BY <1>2 DEF Done
<1>3. ASSUME NEW t \in Threads, CmdComplete(t) PROVE WaitTypeOK'
  BY <1>3 DEF CmdComplete
<1>4. ASSUME NEW t \in Threads, ScanOne(t) PROVE WaitTypeOK'
  BY <1>4 DEF ScanOne
<1>5. ASSUME NEW t \in Threads,
         Refuse(t) \/ Call(t) \/ GiveUp(t) \/ Killed(t) \/ Acquire(t)
      \/ GetCid(t) \/ Lock(t) \/ Write(t) \/ WriteFails(t) \/ Add(t)
      \/ Wake(t) \/ CheckTimedOut(t) \/ CheckRcode(t) \/ Abort(t)
      \/ GetResponse(t)
      PROVE WaitTypeOK'
  BY <1>5
  DEF Refuse, Call, GiveUp, Killed, Acquire, GetCid, Lock, Write, WriteFails, Add,
     Wake, CheckTimedOut, CheckRcode, Abort, GetResponse
<1>6. CASE FlagTimeout
  BY <1>6 DEF FlagTimeout
<1>7. CASE Stop \/ ReadResponse \/ Unexpected \/ StartCheck \/ EndCheck
  BY <1>7 DEF Stop, ReadResponse, Unexpected, StartCheck, EndCheck
<1>8. CASE Amc
  BY <1>8 DEF Amc, AmcTake, AmcAnswer
<1> HIDE DEF TypeOK, WaitTypeOK, waitVars
<1>. QED
  BY <1>1, <1>2, <1>3, <1>4, <1>5, <1>6, <1>7, <1>8 DEF Next, Step, ResponseThread

\* The ids, the semaphores and the lock.
LEMMA DriverTypes == TypeOK /\ Next => DriverTypeOK'
<1> SUFFICES ASSUME TypeOK, Next PROVE DriverTypeOK'
  OBVIOUS
<1> USE DEF TypeOK, DriverTypeOK, cidVars
<1>1. ASSUME NEW t \in Threads, Acquire(t) PROVE DriverTypeOK'
  BY <1>1 DEF Acquire
<1>2. ASSUME NEW t \in Threads, GetCid(t) PROVE DriverTypeOK'
  <2>1. CASE UNCHANGED cidVars
    BY <1>2, <2>1 DEF GetCid
  <2>2. ASSUME NEW id \in FreeCids, cidsUsed' = cidsUsed \cup {id},
               nextCid' = id + 1
        PROVE  DriverTypeOK'
    BY <1>2, <2>2, MaxCidNat DEF GetCid, FreeCids, Cids
  <2>. QED BY <1>2, <2>2 DEF GetCid
<1>3. ASSUME NEW t \in Threads, Lock(t) PROVE DriverTypeOK'
  BY <1>3 DEF Lock
<1>4. ASSUME NEW t \in Threads, WriteFails(t) PROVE DriverTypeOK'
  BY <1>4 DEF WriteFails
<1>5. ASSUME NEW t \in Threads, Add(t) PROVE DriverTypeOK'
  BY <1>5 DEF Add
<1>6. ASSUME NEW t \in Threads, Done(t) PROVE DriverTypeOK'
  BY <1>6 DEF Done
<1>7. ASSUME NEW t \in Threads,
         Refuse(t) \/ Call(t) \/ GiveUp(t) \/ Killed(t) \/ Expire(t)
      \/ Write(t) \/ Wake(t) \/ CheckTimedOut(t) \/ CheckRcode(t)
      \/ Abort(t) \/ GetResponse(t) \/ CmdComplete(t) \/ ScanOne(t)
      PROVE DriverTypeOK'
  BY <1>7
  DEF Refuse, Call, GiveUp, Killed, Expire, Write, Wake, CheckTimedOut, CheckRcode,
     Abort, GetResponse, CmdComplete, ScanOne
<1>8. CASE Stop
  BY <1>8 DEF Stop
<1>9. CASE ReadResponse \/ Unexpected \/ StartCheck \/ FlagTimeout \/ EndCheck
  BY <1>9 DEF ReadResponse, Unexpected, StartCheck, FlagTimeout, EndCheck
<1>10. CASE Amc
  BY <1>10 DEF Amc, AmcTake, AmcAnswer
<1> HIDE DEF TypeOK, DriverTypeOK, cidVars
<1>. QED
  BY <1>1, <1>2, <1>3, <1>4, <1>5, <1>6, <1>7, <1>8, <1>9, <1>10
  DEF Next, Step, ResponseThread

\* The list of submitted commands.
LEMMA ListTypes == TypeOK /\ Next => ListTypeOK'
<1> SUFFICES ASSUME TypeOK, Next PROVE ListTypeOK'
  OBVIOUS
<1> USE DEF TypeOK, ListTypeOK, listVars
<1>1. ASSUME NEW t \in Threads, Add(t) PROVE ListTypeOK'
  BY <1>1 DEF Add, ListAdd
<1>2. ASSUME NEW t \in Threads, Abort(t) PROVE ListTypeOK'
  BY <1>2 DEF Abort, ListDel
<1>3. ASSUME NEW t \in Threads, CmdComplete(t) PROVE ListTypeOK'
  BY <1>3 DEF CmdComplete, ListDel
<1>4. ASSUME NEW t \in Threads,
         Refuse(t) \/ Call(t) \/ GiveUp(t) \/ Killed(t) \/ Expire(t)
      \/ Acquire(t) \/ GetCid(t) \/ Lock(t) \/ Write(t) \/ WriteFails(t)
      \/ Wake(t) \/ CheckTimedOut(t) \/ CheckRcode(t) \/ GetResponse(t)
      \/ Done(t) \/ ScanOne(t)
      PROVE ListTypeOK'
  BY <1>4
  DEF Refuse, Call, GiveUp, Killed, Expire, Acquire, GetCid, Lock, Write,
     WriteFails, Wake, CheckTimedOut, CheckRcode, GetResponse, Done, ScanOne
<1>5. CASE Stop \/ ReadResponse \/ Unexpected \/ StartCheck
           \/ FlagTimeout \/ EndCheck
  BY <1>5 DEF Stop, ReadResponse, Unexpected, StartCheck, FlagTimeout, EndCheck
<1>6. CASE Amc
  BY <1>6 DEF Amc, AmcTake, AmcAnswer
<1> HIDE DEF TypeOK, ListTypeOK, listVars
<1>. QED
  BY <1>1, <1>2, <1>3, <1>4, <1>5, <1>6 DEF Next, Step, ResponseThread

\* The response thread.
LEMMA ResponseTypes == TypeOK /\ Next => ResponseTypeOK'
<1> SUFFICES ASSUME TypeOK, Next PROVE ResponseTypeOK'
  OBVIOUS
<1> USE DEF TypeOK, ResponseTypeOK, respVars
<1>1. ASSUME NEW t \in Threads, CmdComplete(t) PROVE ResponseTypeOK'
  BY <1>1 DEF CmdComplete
<1>2. ASSUME NEW t \in Threads, ScanOne(t) PROVE ResponseTypeOK'
  BY <1>2, CommandAssumption DEF ScanOne
<1>3. ASSUME NEW t \in Threads,
         Refuse(t) \/ Call(t) \/ GiveUp(t) \/ Killed(t) \/ Expire(t)
      \/ Acquire(t) \/ GetCid(t) \/ Lock(t) \/ Write(t) \/ WriteFails(t)
      \/ Add(t) \/ Wake(t) \/ CheckTimedOut(t) \/ CheckRcode(t)
      \/ Abort(t) \/ GetResponse(t) \/ Done(t)
      PROVE ResponseTypeOK'
  BY <1>3
  DEF Refuse, Call, GiveUp, Killed, Expire, Acquire, GetCid, Lock, Write,
     WriteFails, Add, Wake, CheckTimedOut, CheckRcode, Abort, GetResponse, Done
<1>4. CASE ReadResponse
  BY <1>4, CommandAssumption DEF ReadResponse, QueueTypeOK, Requests, Calls, Cids
<1>5. CASE Unexpected
  BY <1>5 DEF Unexpected
<1>6. CASE StartCheck
  BY <1>6 DEF StartCheck, ListTypeOK
<1>7. CASE FlagTimeout
  BY <1>7 DEF FlagTimeout
<1>8. CASE EndCheck
  BY <1>8 DEF EndCheck
<1>9. CASE Stop
  BY <1>9 DEF Stop
<1>10. CASE Amc
  BY <1>10 DEF Amc, AmcTake, AmcAnswer
<1> HIDE DEF TypeOK, ResponseTypeOK, respVars
<1>. QED
  BY <1>1, <1>2, <1>3, <1>4, <1>5, <1>6, <1>7, <1>8, <1>9, <1>10
  DEF Next, Step, ResponseThread

\* The requests and the responses on their way.
LEMMA QueueTypes == TypeOK /\ Next => QueueTypeOK'
<1> SUFFICES ASSUME TypeOK, Next PROVE QueueTypeOK'
  OBVIOUS
<1> USE DEF TypeOK, QueueTypeOK, queueVars
<1>1. ASSUME NEW t \in Threads, Acquire(t) PROVE QueueTypeOK'
  BY <1>1 DEF Acquire, CallTypeOK, ThisCall, Calls
<1>2. ASSUME NEW t \in Threads, Write(t) PROVE QueueTypeOK'
  BY <1>2 DEF Write, CallTypeOK, ThisCall, Requests, Calls
<1>3. ASSUME NEW t \in Threads,
         Refuse(t) \/ Call(t) \/ GiveUp(t) \/ Killed(t) \/ Expire(t)
      \/ GetCid(t) \/ Lock(t) \/ WriteFails(t) \/ Add(t) \/ Wake(t)
      \/ CheckTimedOut(t) \/ CheckRcode(t) \/ Abort(t) \/ GetResponse(t)
      \/ Done(t) \/ CmdComplete(t) \/ ScanOne(t)
      PROVE QueueTypeOK'
  BY <1>3
  DEF Refuse, Call, GiveUp, Killed, Expire, GetCid, Lock, WriteFails, Add, Wake,
     CheckTimedOut, CheckRcode, Abort, GetResponse, Done, CmdComplete, ScanOne
<1>4. CASE ReadResponse
  BY <1>4 DEF ReadResponse
<1>5. ASSUME NEW r \in sq, AmcTake(r) PROVE QueueTypeOK'
  BY <1>5 DEF AmcTake
<1>6. ASSUME NEW r \in busy, AmcAnswer(r) PROVE QueueTypeOK'
  BY <1>6 DEF AmcAnswer, Requests
<1>7. CASE Stop \/ Unexpected \/ StartCheck \/ FlagTimeout \/ EndCheck
  BY <1>7 DEF Stop, Unexpected, StartCheck, FlagTimeout, EndCheck
<1>8. CASE Amc
  BY <1>5, <1>6, <1>8 DEF Amc
<1> HIDE DEF TypeOK, QueueTypeOK, queueVars
<1>. QED
  BY <1>1, <1>2, <1>3, <1>4, <1>7, <1>8 DEF Next, Step, ResponseThread

\* Every step keeps the types.
LEMMA NextTypes == TypeOK /\ Next => TypeOK'
  BY CallTypes, WaitTypes, DriverTypes, ListTypes, ResponseTypes, QueueTypes
     DEF TypeOK

\* Stuttering changes no variable.
LEMMA StutterTypes == TypeOK /\ UNCHANGED vars => TypeOK'
  BY
  DEF TypeOK, CallTypeOK, WaitTypeOK, DriverTypeOK, ListTypeOK, ResponseTypeOK,
     QueueTypeOK, vars, callVars, waitVars, cidVars, listVars, respVars, queueVars

\* Type correctness of the command path.
THEOREM TypeCorrect == Spec => []TypeOK
<1>1. TypeOK /\ [Next]_vars => TypeOK'
  BY NextTypes, StutterTypes
<1>. QED
  BY InitTypes, <1>1, PTL DEF Spec

\* The list and the cursors into it.
LEMMA ListStep == SafetyInv /\ Next => ListInv'
<1> SUFFICES ASSUME SafetyInv, Next PROVE ListInv'
  OBVIOUS
<1> USE DEF SafetyInv, ListInv, InstLockFree, Waiting, listVars, waitVars,
   respVars, TypeOK, CallTypeOK, WaitTypeOK, ListTypeOK, ResponseTypeOK
<1>1. ASSUME NEW t \in Threads, Call(t) PROVE ListInv'
  BY <1>1 DEF Call
<1>2. ASSUME NEW t \in Threads, GiveUp(t) PROVE ListInv'
  BY <1>2 DEF GiveUp
<1>3. ASSUME NEW t \in Threads, Killed(t) PROVE ListInv'
  BY <1>3 DEF Killed
<1>4. ASSUME NEW t \in Threads, Acquire(t) PROVE ListInv'
  BY <1>4 DEF Acquire
<1>5. ASSUME NEW t \in Threads, GetCid(t) PROVE ListInv'
  BY <1>5 DEF GetCid
<1>6. ASSUME NEW t \in Threads, Lock(t) PROVE ListInv'
  BY <1>6 DEF Lock
<1>7. ASSUME NEW t \in Threads, Write(t) PROVE ListInv'
  BY <1>7 DEF Write
<1>8. ASSUME NEW t \in Threads, WriteFails(t) PROVE ListInv'
  BY <1>8 DEF WriteFails
<1>9. ASSUME NEW t \in Threads, Add(t) PROVE ListInv'
  BY <1>9 DEF Add, ListAdd
<1>10. ASSUME NEW t \in Threads, Wake(t) PROVE ListInv'
  BY <1>10 DEF Wake
<1>11. ASSUME NEW t \in Threads, CheckTimedOut(t) PROVE ListInv'
  BY <1>11 DEF CheckTimedOut
<1>12. ASSUME NEW t \in Threads, CheckRcode(t) PROVE ListInv'
  BY <1>12 DEF CheckRcode, WakeInv
<1>13. ASSUME NEW t \in Threads, Abort(t) PROVE ListInv'
  BY <1>13 DEF Abort, ListDel
<1>14. ASSUME NEW t \in Threads, GetResponse(t) PROVE ListInv'
  BY <1>14 DEF GetResponse
<1>15. ASSUME NEW t \in Threads, Done(t) PROVE ListInv'
  BY <1>15 DEF Done
<1>16. ASSUME NEW t \in Threads, CmdComplete(t) PROVE ListInv'
  BY <1>16 DEF CmdComplete, ListDel
<1>17. ASSUME NEW t \in Threads, ScanOne(t) PROVE ListInv'
  BY <1>17 DEF ScanOne, IsFirst, ETIME
<1>18. ASSUME NEW t \in Threads,
         Refuse(t) \/ Expire(t)
      PROVE ListInv'
  BY <1>18 DEF Refuse, Expire
<1>19. CASE ReadResponse
  BY <1>19 DEF ReadResponse
<1>20. CASE Unexpected
  BY <1>20 DEF Unexpected
<1>21. CASE StartCheck
  BY <1>21 DEF StartCheck
<1>22. CASE FlagTimeout
  BY <1>22 DEF FlagTimeout
<1>23. CASE EndCheck
  BY <1>23 DEF EndCheck
<1>24. CASE Stop
  BY <1>24 DEF Stop
<1>25. CASE Amc
  BY <1>25 DEF Amc, AmcTake, AmcAnswer
<1> HIDE DEF SafetyInv, ListInv, InstLockFree, Waiting, listVars, waitVars,
   respVars, TypeOK, CallTypeOK, WaitTypeOK, ListTypeOK, ResponseTypeOK
<1>. QED
  BY <1>1, <1>2, <1>3, <1>4, <1>5, <1>6, <1>7, <1>8, <1>9, <1>10, <1>11,
     <1>12, <1>13, <1>14, <1>15, <1>16, <1>17, <1>18, <1>19, <1>20, <1>21,
        <1>22, <1>23, <1>24, <1>25
  DEF Next, Step, ResponseThread

\* Who was woken, and why.
LEMMA WakeStep == SafetyInv /\ Next => WakeInv'
<1> SUFFICES ASSUME SafetyInv, Next PROVE WakeInv'
  OBVIOUS
<1> USE DEF SafetyInv, WakeInv, Fresh, waitVars, listVars, TypeOK,
   CallTypeOK, WaitTypeOK, ListTypeOK, ResponseTypeOK
<1>1. ASSUME NEW t \in Threads, Call(t) PROVE WakeInv'
  BY <1>1 DEF Call
<1>2. ASSUME NEW t \in Threads, GiveUp(t) PROVE WakeInv'
  BY <1>2 DEF GiveUp
<1>3. ASSUME NEW t \in Threads, Killed(t) PROVE WakeInv'
  BY <1>3 DEF Killed
<1>4. ASSUME NEW t \in Threads, Acquire(t) PROVE WakeInv'
  BY <1>4 DEF Acquire
<1>5. ASSUME NEW t \in Threads, GetCid(t) PROVE WakeInv'
  BY <1>5 DEF GetCid
<1>6. ASSUME NEW t \in Threads, Lock(t) PROVE WakeInv'
  BY <1>6 DEF Lock
<1>7. ASSUME NEW t \in Threads, Write(t) PROVE WakeInv'
  BY <1>7 DEF Write
<1>8. ASSUME NEW t \in Threads, WriteFails(t) PROVE WakeInv'
  BY <1>8 DEF WriteFails
<1>9. ASSUME NEW t \in Threads, Add(t) PROVE WakeInv'
  BY <1>9 DEF Add, ListAdd
<1>10. ASSUME NEW t \in Threads, Wake(t) PROVE WakeInv'
  BY <1>10 DEF Wake
<1>11. ASSUME NEW t \in Threads, CheckTimedOut(t) PROVE WakeInv'
  BY <1>11 DEF CheckTimedOut
<1>12. ASSUME NEW t \in Threads, CheckRcode(t) PROVE WakeInv'
  BY <1>12 DEF CheckRcode
<1>13. ASSUME NEW t \in Threads, Abort(t) PROVE WakeInv'
  BY <1>13 DEF Abort, ListDel
<1>14. ASSUME NEW t \in Threads, GetResponse(t) PROVE WakeInv'
  BY <1>14 DEF GetResponse
<1>15. ASSUME NEW t \in Threads, Done(t) PROVE WakeInv'
  BY <1>15 DEF Done
<1>16. ASSUME NEW t \in Threads, CmdComplete(t) PROVE WakeInv'
  BY <1>16 DEF CmdComplete, ListDel, IsFirst, Matching, ListInv, Waiting
<1>17. ASSUME NEW t \in Threads, ScanOne(t) PROVE WakeInv'
  BY <1>17 DEF ScanOne, IsFirst, ListInv, Waiting, ETIME
<1>18. ASSUME NEW t \in Threads,
         Refuse(t) \/ Expire(t)
      PROVE WakeInv'
  BY <1>18 DEF Refuse, Expire
<1>19. CASE Stop \/ ReadResponse \/ Unexpected \/ StartCheck
            \/ FlagTimeout \/ EndCheck
  BY <1>19 DEF Stop, ReadResponse, Unexpected, StartCheck, FlagTimeout, EndCheck
<1>20. CASE Amc
  BY <1>20 DEF Amc, AmcTake, AmcAnswer
<1> HIDE DEF SafetyInv, WakeInv, Fresh, waitVars, listVars, TypeOK,
   CallTypeOK, WaitTypeOK, ListTypeOK, ResponseTypeOK
<1>. QED
  BY <1>1, <1>2, <1>3, <1>4, <1>5, <1>6, <1>7, <1>8, <1>9, <1>10, <1>11,
     <1>12, <1>13, <1>14, <1>15, <1>16, <1>17, <1>18, <1>19, <1>20
  DEF Next, Step, ResponseThread

\* A command is allocated exactly while its call runs.
LEMMA AllocStep == SafetyInv /\ Next => AllocInv'
<1> SUFFICES ASSUME SafetyInv, Next PROVE AllocInv'
  OBVIOUS
<1> USE DEF SafetyInv, AllocInv, callVars, TypeOK, CallTypeOK
<1>1. ASSUME NEW t \in Threads, Call(t) PROVE AllocInv'
  BY <1>1 DEF Call
<1>2. ASSUME NEW t \in Threads, GiveUp(t) PROVE AllocInv'
  BY <1>2 DEF GiveUp
<1>3. ASSUME NEW t \in Threads, Killed(t) PROVE AllocInv'
  BY <1>3 DEF Killed
<1>4. ASSUME NEW t \in Threads, Acquire(t) PROVE AllocInv'
  BY <1>4 DEF Acquire
<1>5. ASSUME NEW t \in Threads, GetCid(t) PROVE AllocInv'
  BY <1>5 DEF GetCid
<1>6. ASSUME NEW t \in Threads, Lock(t) PROVE AllocInv'
  BY <1>6 DEF Lock
<1>7. ASSUME NEW t \in Threads, Write(t) PROVE AllocInv'
  BY <1>7 DEF Write
<1>8. ASSUME NEW t \in Threads, WriteFails(t) PROVE AllocInv'
  BY <1>8 DEF WriteFails
<1>9. ASSUME NEW t \in Threads, Add(t) PROVE AllocInv'
  BY <1>9 DEF Add
<1>10. ASSUME NEW t \in Threads, Wake(t) PROVE AllocInv'
  BY <1>10 DEF Wake
<1>11. ASSUME NEW t \in Threads, CheckTimedOut(t) PROVE AllocInv'
  BY <1>11 DEF CheckTimedOut
<1>12. ASSUME NEW t \in Threads, CheckRcode(t) PROVE AllocInv'
  BY <1>12 DEF CheckRcode
<1>13. ASSUME NEW t \in Threads, Abort(t) PROVE AllocInv'
  BY <1>13 DEF Abort
<1>14. ASSUME NEW t \in Threads, GetResponse(t) PROVE AllocInv'
  BY <1>14 DEF GetResponse
<1>15. ASSUME NEW t \in Threads, Done(t) PROVE AllocInv'
  BY <1>15 DEF Done
<1>16. ASSUME NEW t \in Threads,
         Refuse(t) \/ Expire(t) \/ CmdComplete(t) \/ ScanOne(t)
      PROVE AllocInv'
  BY <1>16 DEF Refuse, Expire, CmdComplete, ScanOne
<1>17. CASE Stop \/ ReadResponse \/ Unexpected \/ StartCheck
            \/ FlagTimeout \/ EndCheck
  BY <1>17 DEF Stop, ReadResponse, Unexpected, StartCheck, FlagTimeout, EndCheck
<1>18. CASE Amc
  BY <1>18 DEF Amc, AmcTake, AmcAnswer
<1> HIDE DEF SafetyInv, AllocInv, callVars, TypeOK, CallTypeOK
<1>. QED
  BY <1>1, <1>2, <1>3, <1>4, <1>5, <1>6, <1>7, <1>8, <1>9, <1>10, <1>11,
     <1>12, <1>13, <1>14, <1>15, <1>16, <1>17, <1>18
  DEF Next, Step, ResponseThread

\* What an aborted call returns.
LEMMA ReturnStep == LeakInv /\ Next => ReturnInv'
<1> SUFFICES ASSUME LeakInv, Next PROVE ReturnInv'
  OBVIOUS
<1> USE DEF LeakInv, ReturnInv, callVars, TypeOK, CallTypeOK
<1>1. ASSUME NEW t \in Threads, Call(t) PROVE ReturnInv'
  BY <1>1 DEF Call
<1>2. ASSUME NEW t \in Threads, GiveUp(t) PROVE ReturnInv'
  BY <1>2 DEF GiveUp
<1>3. ASSUME NEW t \in Threads, Killed(t) PROVE ReturnInv'
  BY <1>3 DEF Killed
<1>4. ASSUME NEW t \in Threads, Acquire(t) PROVE ReturnInv'
  BY <1>4 DEF Acquire
<1>5. ASSUME NEW t \in Threads, GetCid(t) PROVE ReturnInv'
  BY <1>5 DEF GetCid
<1>6. ASSUME NEW t \in Threads, Lock(t) PROVE ReturnInv'
  BY <1>6 DEF Lock
<1>7. ASSUME NEW t \in Threads, Write(t) PROVE ReturnInv'
  BY <1>7 DEF Write
<1>8. ASSUME NEW t \in Threads, WriteFails(t) PROVE ReturnInv'
  BY <1>8 DEF WriteFails
<1>9. ASSUME NEW t \in Threads, Add(t) PROVE ReturnInv'
  BY <1>9 DEF Add
<1>10. ASSUME NEW t \in Threads, Wake(t) PROVE ReturnInv'
  BY <1>10 DEF Wake
<1>11. ASSUME NEW t \in Threads, CheckTimedOut(t) PROVE ReturnInv'
  BY <1>11 DEF CheckTimedOut
<1>12. ASSUME NEW t \in Threads, CheckRcode(t) PROVE ReturnInv'
  BY <1>12 DEF CheckRcode
<1>13. ASSUME NEW t \in Threads, Abort(t) PROVE ReturnInv'
  BY <1>13 DEF Abort
<1>14. ASSUME NEW t \in Threads, GetResponse(t) PROVE ReturnInv'
  BY <1>14 DEF GetResponse
<1>15. ASSUME NEW t \in Threads, Done(t) PROVE ReturnInv'
  BY <1>15 DEF Done
<1>16. ASSUME NEW t \in Threads,
         Refuse(t) \/ Expire(t) \/ CmdComplete(t) \/ ScanOne(t)
      PROVE ReturnInv'
  BY <1>16 DEF Refuse, Expire, CmdComplete, ScanOne
<1>17. CASE Stop \/ ReadResponse \/ Unexpected \/ StartCheck
            \/ FlagTimeout \/ EndCheck
  BY <1>17 DEF Stop, ReadResponse, Unexpected, StartCheck, FlagTimeout, EndCheck
<1>18. CASE Amc
  BY <1>18 DEF Amc, AmcTake, AmcAnswer
<1> HIDE DEF LeakInv, ReturnInv, callVars, TypeOK, CallTypeOK
<1>. QED
  BY <1>1, <1>2, <1>3, <1>4, <1>5, <1>6, <1>7, <1>8, <1>9, <1>10, <1>11,
     <1>12, <1>13, <1>14, <1>15, <1>16, <1>17, <1>18
  DEF Next, Step, ResponseThread

\* submit_gcq_command frees a command only when the response thread can no
\* longer reach it, through the list or through its cursor.
THEOREM CommandMemorySafe == Spec => []NoUseAfterFree
<1>1. Init => SafetyInv
  <2> SUFFICES ASSUME Init PROVE SafetyInv
    OBVIOUS
  <2>1. TypeOK
    BY InitTypes
  <2>2. ListInv /\ WakeInv /\ AllocInv
    BY DEF Init, ListInv, WakeInv, AllocInv
  <2>. QED BY <2>1, <2>2 DEF SafetyInv
<1>2. SafetyInv /\ [Next]_vars => SafetyInv'
  <2>1. SafetyInv /\ Next => SafetyInv'
    BY NextTypes, ListStep, WakeStep, AllocStep DEF SafetyInv
  <2>2. SafetyInv /\ UNCHANGED vars => (ListInv /\ WakeInv /\ AllocInv)'
    BY
    DEF SafetyInv, ListInv, WakeInv, AllocInv, InstLockFree, vars, callVars,
       waitVars, listVars, respVars
  <2>3. SafetyInv /\ UNCHANGED vars => TypeOK'
    BY StutterTypes DEF SafetyInv
  <2>. QED BY <2>1, <2>2, <2>3 DEF SafetyInv
<1>3. SafetyInv => NoUseAfterFree
  BY DEF SafetyInv, ListInv, AllocInv, NoUseAfterFree, Waiting, TypeOK, ListTypeOK
<1>. QED
  BY <1>1, <1>2, <1>3, PTL DEF Spec

\* A call keeps its id until it gives it back.
LEMMA CidKept ==
  ASSUME LeakInv, Next, NEW u \in Threads, HasCid(u), cid[u] \in cidsUsed'
  PROVE  HasCid(u)' /\ cid'[u] = cid[u]
<1> USE DEF LeakInv, ReturnInv, HasCid, callVars, TypeOK, CallTypeOK
<1>1. ASSUME NEW t \in Threads, Call(t) PROVE HasCid(u)' /\ cid'[u] = cid[u]
  BY <1>1 DEF Call
<1>2. ASSUME NEW t \in Threads, GiveUp(t) PROVE HasCid(u)' /\ cid'[u] = cid[u]
  BY <1>2 DEF GiveUp
<1>3. ASSUME NEW t \in Threads, Killed(t) PROVE HasCid(u)' /\ cid'[u] = cid[u]
  BY <1>3 DEF Killed
<1>4. ASSUME NEW t \in Threads, Acquire(t)
             PROVE HasCid(u)' /\ cid'[u] = cid[u]
  BY <1>4 DEF Acquire
<1>5. ASSUME NEW t \in Threads, GetCid(t) PROVE HasCid(u)' /\ cid'[u] = cid[u]
  BY <1>5 DEF GetCid
<1>6. ASSUME NEW t \in Threads, Lock(t) PROVE HasCid(u)' /\ cid'[u] = cid[u]
  BY <1>6 DEF Lock
<1>7. ASSUME NEW t \in Threads, Write(t) PROVE HasCid(u)' /\ cid'[u] = cid[u]
  BY <1>7 DEF Write
<1>8. ASSUME NEW t \in Threads, WriteFails(t)
             PROVE HasCid(u)' /\ cid'[u] = cid[u]
  BY <1>8 DEF WriteFails
<1>9. ASSUME NEW t \in Threads, Add(t) PROVE HasCid(u)' /\ cid'[u] = cid[u]
  BY <1>9 DEF Add
<1>10. ASSUME NEW t \in Threads, Wake(t) PROVE HasCid(u)' /\ cid'[u] = cid[u]
  BY <1>10 DEF Wake
<1>11. ASSUME NEW t \in Threads, CheckTimedOut(t)
              PROVE HasCid(u)' /\ cid'[u] = cid[u]
  BY <1>11 DEF CheckTimedOut
<1>12. ASSUME NEW t \in Threads, CheckRcode(t)
              PROVE HasCid(u)' /\ cid'[u] = cid[u]
  BY <1>12 DEF CheckRcode
<1>13. ASSUME NEW t \in Threads, Abort(t) PROVE HasCid(u)' /\ cid'[u] = cid[u]
  BY <1>13 DEF Abort
<1>14. ASSUME NEW t \in Threads, GetResponse(t)
              PROVE HasCid(u)' /\ cid'[u] = cid[u]
  BY <1>14 DEF GetResponse
<1>15. ASSUME NEW t \in Threads, Done(t) PROVE HasCid(u)' /\ cid'[u] = cid[u]
  BY <1>15 DEF Done, GivenBack
<1>16. ASSUME NEW t \in Threads,
         Refuse(t) \/ Expire(t) \/ CmdComplete(t) \/ ScanOne(t)
      PROVE HasCid(u)' /\ cid'[u] = cid[u]
  BY <1>16 DEF Refuse, Expire, CmdComplete, ScanOne
<1>17. CASE Stop \/ ReadResponse \/ Unexpected \/ StartCheck
            \/ FlagTimeout \/ EndCheck
  BY <1>17 DEF Stop, ReadResponse, Unexpected, StartCheck, FlagTimeout, EndCheck
<1>18. CASE Amc
  BY <1>18 DEF Amc, AmcTake, AmcAnswer
<1> HIDE DEF LeakInv, ReturnInv, HasCid, callVars, TypeOK, CallTypeOK
<1>. QED
  BY <1>1, <1>2, <1>3, <1>4, <1>5, <1>6, <1>7, <1>8, <1>9, <1>10, <1>11,
     <1>12, <1>13, <1>14, <1>15, <1>16, <1>17, <1>18
  DEF Next, Step, ResponseThread

\* Only get_gcq_cid takes an id, and for the call that asks.
LEMMA CidTaken ==
  ASSUME TypeOK, Next, NEW i \in cidsUsed', i \notin cidsUsed
  PROVE  \E t \in Threads : HasCid(t)' /\ cid'[t] = i
<1> DEFINE Taken == \E t \in Threads : HasCid(t)' /\ cid'[t] = i
<1> USE DEF cidVars
<1> HIDE DEF Taken
<1>1. ASSUME NEW t \in Threads, GetCid(t) PROVE Taken
  BY <1>1 DEF Taken, GetCid, TypeOK, CallTypeOK, HasCid
<1>2. ASSUME NEW t \in Threads, Done(t) PROVE Taken
  BY <1>2 DEF Done
<1>3. ASSUME NEW t \in Threads,
         Refuse(t) \/ Call(t) \/ GiveUp(t) \/ Killed(t) \/ Expire(t)
      \/ Acquire(t) \/ Lock(t) \/ Write(t) \/ WriteFails(t) \/ Add(t)
      \/ Wake(t) \/ CheckTimedOut(t) \/ CheckRcode(t) \/ Abort(t)
      \/ GetResponse(t) \/ CmdComplete(t) \/ ScanOne(t)
      PROVE Taken
  BY <1>3
  DEF Refuse, Call, GiveUp, Killed, Expire, Acquire, Lock, Write, WriteFails, Add,
     Wake, CheckTimedOut, CheckRcode, Abort, GetResponse, CmdComplete, ScanOne
<1>4. CASE Stop \/ ReadResponse \/ Unexpected \/ StartCheck
           \/ FlagTimeout \/ EndCheck
  BY <1>4 DEF Stop, ReadResponse, Unexpected, StartCheck, FlagTimeout, EndCheck
<1>5. CASE Amc
  BY <1>5 DEF Amc, AmcTake, AmcAnswer
<1> HIDE DEF cidVars
<1>. QED
  BY <1>1, <1>2, <1>3, <1>4, <1>5 DEF Taken, Next, Step, ResponseThread

\* Semaphores and the command lock are held by calls that run.
LEMMA LocksStep == LeakInv /\ Next => LocksHeld'
<1> SUFFICES ASSUME LeakInv, Next PROVE LocksHeld'
  OBVIOUS
<1> USE DEF LeakInv, NothingLeaks, LocksHeld, TypeOK, CallTypeOK, DriverTypeOK
<1>1. ASSUME NEW t \in Threads, Call(t) PROVE LocksHeld'
  BY <1>1 DEF Call
<1>2. ASSUME NEW t \in Threads, GiveUp(t) PROVE LocksHeld'
  BY <1>2 DEF GiveUp
<1>3. ASSUME NEW t \in Threads, Killed(t) PROVE LocksHeld'
  BY <1>3 DEF Killed
<1>4. ASSUME NEW t \in Threads, Acquire(t) PROVE LocksHeld'
  BY <1>4 DEF Acquire
<1>5. ASSUME NEW t \in Threads, GetCid(t) PROVE LocksHeld'
  BY <1>5 DEF GetCid
<1>6. ASSUME NEW t \in Threads, Lock(t) PROVE LocksHeld'
  BY <1>6 DEF Lock
<1>7. ASSUME NEW t \in Threads, Write(t) PROVE LocksHeld'
  BY <1>7 DEF Write
<1>8. ASSUME NEW t \in Threads, WriteFails(t) PROVE LocksHeld'
  BY <1>8 DEF WriteFails
<1>9. ASSUME NEW t \in Threads, Add(t) PROVE LocksHeld'
  BY <1>9 DEF Add
<1>10. ASSUME NEW t \in Threads, Wake(t) PROVE LocksHeld'
  BY <1>10 DEF Wake
<1>11. ASSUME NEW t \in Threads, CheckTimedOut(t) PROVE LocksHeld'
  BY <1>11 DEF CheckTimedOut
<1>12. ASSUME NEW t \in Threads, CheckRcode(t) PROVE LocksHeld'
  BY <1>12 DEF CheckRcode
<1>13. ASSUME NEW t \in Threads, Abort(t) PROVE LocksHeld'
  BY <1>13 DEF Abort
<1>14. ASSUME NEW t \in Threads, GetResponse(t) PROVE LocksHeld'
  BY <1>14 DEF GetResponse
<1>15. ASSUME NEW t \in Threads, Done(t) PROVE LocksHeld'
  BY <1>15 DEF Done
<1>16. ASSUME NEW t \in Threads,
         Refuse(t) \/ Expire(t) \/ CmdComplete(t) \/ ScanOne(t)
      PROVE LocksHeld'
  BY <1>16 DEF Refuse, Expire, CmdComplete, ScanOne
<1>17. CASE Stop \/ ReadResponse \/ Unexpected \/ StartCheck
            \/ FlagTimeout \/ EndCheck
  BY <1>17 DEF Stop, ReadResponse, Unexpected, StartCheck, FlagTimeout, EndCheck
<1>18. CASE Amc
  BY <1>18 DEF Amc, AmcTake, AmcAnswer
<1> HIDE DEF LeakInv, NothingLeaks, LocksHeld, TypeOK, CallTypeOK,
   DriverTypeOK
<1>. QED
  BY <1>1, <1>2, <1>3, <1>4, <1>5, <1>6, <1>7, <1>8, <1>9, <1>10, <1>11,
     <1>12, <1>13, <1>14, <1>15, <1>16, <1>17, <1>18
  DEF Next, Step, ResponseThread

\* Every id in use belongs to a running call.
LEMMA CidsStep == LeakInv /\ Next => CidsHeld'
<1> SUFFICES ASSUME LeakInv, Next, NEW i \in cidsUsed'
             PROVE  \E t \in Threads : HasCid(t)' /\ cid'[t] = i
  BY DEF CidsHeld
<1>1. CASE i \in cidsUsed
  <2>1. PICK u \in Threads : HasCid(u) /\ cid[u] = i
    BY <1>1 DEF LeakInv, NothingLeaks, CidsHeld
  <2>. QED BY <2>1, CidKept
<1>2. CASE i \notin cidsUsed
  BY <1>2, CidTaken DEF LeakInv
<1>. QED BY <1>1, <1>2

\* Every way out of submit_gcq_command gives back its id, its semaphores and
\* the command lock, even where an id was never allocated.
THEOREM ResourcesReturned == Spec => []NothingLeaks
<1>1. Init => LeakInv
  <2>1. Init => ReturnInv /\ NothingLeaks
    BY DEF Init, ReturnInv, NothingLeaks, CidsHeld, LocksHeld
  <2>. QED BY <2>1, InitTypes DEF LeakInv
<1>2. LeakInv /\ [Next]_vars => LeakInv'
  <2>1. LeakInv /\ Next => LeakInv'
    BY NextTypes, ReturnStep, CidsStep, LocksStep DEF LeakInv, NothingLeaks
  <2>2. LeakInv /\ UNCHANGED vars => (ReturnInv /\ NothingLeaks)'
    BY
    DEF LeakInv, ReturnInv, NothingLeaks, CidsHeld, LocksHeld, HasCid, vars,
       callVars, cidVars
  <2>3. LeakInv /\ UNCHANGED vars => TypeOK'
    BY StutterTypes DEF LeakInv
  <2>. QED BY <2>1, <2>2, <2>3 DEF LeakInv
<1>. QED
  BY <1>1, <1>2, PTL DEF Spec, LeakInv
-----------------------------------------------------------------------------
(* Requests and responses on their way.                                    *)

\* Only a write puts something on its way.
LEMMA OnTheirWay ==
  ASSUME TypeOK, Next, NEW r \in Outstanding'
  PROVE  \/ r \in Outstanding
         \/ \E t \in Threads : Write(t) /\ r = <<cid[t], ThisCall(t)>>
<1> DEFINE Known == \/ r \in Outstanding
                    \/ \E t \in Threads : Write(t) /\ r = <<cid[t], ThisCall(t)>>
<1> SUFFICES Known
  OBVIOUS
<1> HIDE DEF Known
<1> USE DEF Outstanding, respVars, queueVars
<1>1. ASSUME NEW t \in Threads, Write(t) PROVE Known
  BY <1>1 DEF Known, Write
<1>2. ASSUME NEW t \in Threads, CmdComplete(t) PROVE Known
  BY <1>2 DEF CmdComplete, Known
<1>3. ASSUME NEW t \in Threads, Refuse(t) \/ Call(t) \/ GiveUp(t) \/ Killed(t) \/
            Expire(t) \/ Acquire(t) \/ GetCid(t) \/ Lock(t) \/ WriteFails(t) \/
            Add(t) \/ Wake(t) \/ CheckTimedOut(t) \/ CheckRcode(t) \/ Abort(t) \/
            GetResponse(t) \/ Done(t) \/ ScanOne(t)
      PROVE Known
  BY <1>3 DEF Refuse, Call, GiveUp, Killed, Expire, Acquire, GetCid, Lock, WriteFails,
     Add, Wake, CheckTimedOut, CheckRcode, Abort, GetResponse, Done, ScanOne, Known
<1>4. CASE Stop \/ ReadResponse \/ Unexpected \/ StartCheck \/ FlagTimeout \/ EndCheck
  BY <1>4 DEF Stop, ReadResponse, Unexpected, StartCheck, FlagTimeout, EndCheck, Known
<1>5. CASE Amc
  BY <1>5 DEF Amc, AmcTake, AmcAnswer, Known
<1> HIDE DEF Outstanding, respVars, queueVars
<1>. QED
  BY <1>1, <1>2, <1>3, <1>4, <1>5
  DEF Next, Step, ResponseThread

\* What is on its way is a request with the call that made it.
LEMMA OutstandingTyped ==
  ASSUME TypeOK, NEW r \in Outstanding
  PROVE  /\ r \in Requests /\ r = <<r[1], r[2]>> /\ r[1] \in Cids
         /\ r[2][1] \in Threads /\ r[2][2] \in Nat /\ r[2] = <<r[2][1], r[2][2]>>
<1>1. r \in Requests
  BY DEF TypeOK, QueueTypeOK, ResponseTypeOK, Outstanding
<1> QED BY <1>1 DEF Requests, Calls

\* A call that has an id has had it, or was given it in this step.
LEMMA HadCid ==
  ASSUME TypeOK, ReturnInv, Next, NEW u \in Threads, HasCid(u)'
  PROVE  \/ HasCid(u) /\ cid'[u] = cid[u] /\ calls'[u] = calls[u]
         \/ /\ GetCid(u) /\ pc[u] = "cid" /\ pc' = [pc EXCEPT ![u] = "lock"]
            /\ cid'[u] \in FreeCids /\ CyclicCid(cid'[u]) /\ nextCid' = cid'[u] + 1
            /\ cidsUsed' = cidsUsed \cup {cid'[u]}
<1> DEFINE Kept == HasCid(u) /\ cid'[u] = cid[u] /\ calls'[u] = calls[u]
           Taken == /\ GetCid(u) /\ pc[u] = "cid" /\ pc' = [pc EXCEPT ![u] = "lock"]
                    /\ cid'[u] \in FreeCids /\ CyclicCid(cid'[u]) /\ nextCid' = cid'[u] + 1
                    /\ cidsUsed' = cidsUsed \cup {cid'[u]}
<1> SUFFICES Kept \/ Taken
  OBVIOUS
<1> HIDE DEF Taken
<1> USE DEF ReturnInv, HasCid, callVars, TypeOK, CallTypeOK
<1>1. ASSUME NEW t \in Threads, Call(t) PROVE Kept \/ Taken
  BY <1>1 DEF Call
<1>2. ASSUME NEW t \in Threads, GiveUp(t) PROVE Kept \/ Taken
  BY <1>2 DEF GiveUp
<1>3. ASSUME NEW t \in Threads, Killed(t) PROVE Kept \/ Taken
  BY <1>3 DEF Killed
<1>4. ASSUME NEW t \in Threads, Acquire(t) PROVE Kept \/ Taken
  BY <1>4 DEF Acquire
<1>5. ASSUME NEW t \in Threads, GetCid(t) PROVE Kept \/ Taken
  BY <1>5 DEF GetCid, Taken
<1>6. ASSUME NEW t \in Threads, Lock(t) PROVE Kept \/ Taken
  BY <1>6 DEF Lock
<1>7. ASSUME NEW t \in Threads, Write(t) PROVE Kept \/ Taken
  BY <1>7 DEF Write
<1>8. ASSUME NEW t \in Threads, WriteFails(t) PROVE Kept \/ Taken
  BY <1>8 DEF WriteFails
<1>9. ASSUME NEW t \in Threads, Add(t) PROVE Kept \/ Taken
  BY <1>9 DEF Add
<1>10. ASSUME NEW t \in Threads, Wake(t) PROVE Kept \/ Taken
  BY <1>10 DEF Wake
<1>11. ASSUME NEW t \in Threads, CheckTimedOut(t) PROVE Kept \/ Taken
  BY <1>11 DEF CheckTimedOut
<1>12. ASSUME NEW t \in Threads, CheckRcode(t) PROVE Kept \/ Taken
  BY <1>12 DEF CheckRcode
<1>13. ASSUME NEW t \in Threads, Abort(t) PROVE Kept \/ Taken
  BY <1>13 DEF Abort
<1>14. ASSUME NEW t \in Threads, GetResponse(t) PROVE Kept \/ Taken
  BY <1>14 DEF GetResponse
<1>15. ASSUME NEW t \in Threads, Done(t) PROVE Kept \/ Taken
  BY <1>15 DEF Done
<1>16. ASSUME NEW t \in Threads, Refuse(t) \/ Expire(t) \/ CmdComplete(t) \/
            ScanOne(t)
      PROVE Kept \/ Taken
  BY <1>16 DEF Refuse, Expire, CmdComplete, ScanOne
<1>17. CASE Stop \/ ReadResponse \/ Unexpected \/ StartCheck \/ FlagTimeout \/ EndCheck
  BY <1>17 DEF Stop, ReadResponse, Unexpected, StartCheck, FlagTimeout, EndCheck
<1>18. CASE Amc
  BY <1>18 DEF Amc, AmcTake, AmcAnswer
<1> HIDE DEF ReturnInv, HasCid, callVars, TypeOK, CallTypeOK
<1>. QED
  BY <1>1, <1>2, <1>3, <1>4, <1>5, <1>6, <1>7, <1>8, <1>9, <1>10, <1>11, <1>12, <1>13,
     <1>14, <1>15, <1>16, <1>17, <1>18
  DEF Next, Step, ResponseThread

-----------------------------------------------------------------------------
(* A call gets the response to its own request.                            *)

\* A thread goes on in its call, or makes another one.
LEMMA StepOfThread ==
  ASSUME TypeOK, Next, NEW u \in Threads
  PROVE  \/ calls'[u] = calls[u] /\ pc'[u] \notin {"acquire", "cid", "lock", "write"}
         \/ /\ calls'[u] = calls[u] /\ pc[u] \in {"acquire", "cid", "lock", "write"}
            /\ pc[u] \in {"lock", "write"} => pc'[u] \notin {"acquire", "cid"}
         \/ calls'[u] = calls[u] + 1 /\ pc[u] = "idle"
<1> DEFINE Goes == \/ calls'[u] = calls[u] /\ pc'[u] \notin {"acquire", "cid", "lock", "write"}
                   \/ /\ calls'[u] = calls[u] /\ pc[u] \in {"acquire", "cid", "lock", "write"}
                      /\ pc[u] \in {"lock", "write"} => pc'[u] \notin {"acquire", "cid"}
                   \/ calls'[u] = calls[u] + 1 /\ pc[u] = "idle"
<1> SUFFICES Goes
  OBVIOUS
<1> USE DEF callVars, TypeOK, CallTypeOK
<1>1. ASSUME NEW t \in Threads, Refuse(t) PROVE Goes
  BY <1>1 DEF Refuse
<1>2. ASSUME NEW t \in Threads, Call(t) PROVE Goes
  BY <1>2 DEF Call
<1>3. ASSUME NEW t \in Threads, GiveUp(t) PROVE Goes
  BY <1>3 DEF GiveUp
<1>4. ASSUME NEW t \in Threads, Killed(t) PROVE Goes
  BY <1>4 DEF Killed
<1>5. ASSUME NEW t \in Threads, Acquire(t) PROVE Goes
  BY <1>5 DEF Acquire
<1>6. ASSUME NEW t \in Threads, GetCid(t) PROVE Goes
  BY <1>6 DEF GetCid
<1>7. ASSUME NEW t \in Threads, Lock(t) PROVE Goes
  BY <1>7 DEF Lock
<1>8. ASSUME NEW t \in Threads, Write(t) PROVE Goes
  BY <1>8 DEF Write
<1>9. ASSUME NEW t \in Threads, WriteFails(t) PROVE Goes
  BY <1>9 DEF WriteFails
<1>10. ASSUME NEW t \in Threads, Add(t) PROVE Goes
  BY <1>10 DEF Add
<1>11. ASSUME NEW t \in Threads, Wake(t) PROVE Goes
  BY <1>11 DEF Wake
<1>12. ASSUME NEW t \in Threads, CheckTimedOut(t) PROVE Goes
  BY <1>12 DEF CheckTimedOut
<1>13. ASSUME NEW t \in Threads, CheckRcode(t) PROVE Goes
  BY <1>13 DEF CheckRcode
<1>14. ASSUME NEW t \in Threads, Abort(t) PROVE Goes
  BY <1>14 DEF Abort
<1>15. ASSUME NEW t \in Threads, GetResponse(t) PROVE Goes
  BY <1>15 DEF GetResponse
<1>16. ASSUME NEW t \in Threads, Done(t) PROVE Goes
  BY <1>16 DEF Done
<1>17. ASSUME NEW t \in Threads, Expire(t) \/ CmdComplete(t) \/ ScanOne(t)
      PROVE Goes
  BY <1>17 DEF Expire, CmdComplete, ScanOne
<1>18. CASE Stop \/ ReadResponse \/ Unexpected \/ StartCheck \/ FlagTimeout \/ EndCheck
  BY <1>18 DEF Stop, ReadResponse, Unexpected, StartCheck, FlagTimeout, EndCheck
<1>19. CASE Amc
  BY <1>19 DEF Amc, AmcTake, AmcAnswer
<1> HIDE DEF callVars, TypeOK, CallTypeOK
<1>. QED
  BY <1>1, <1>2, <1>3, <1>4, <1>5, <1>6, <1>7, <1>8, <1>9, <1>10, <1>11, <1>12, <1>13,
     <1>14, <1>15, <1>16, <1>17, <1>18, <1>19
  DEF Next, Step, ResponseThread

\* A request is in one place.
LEMMA PlacesStep ==
  ASSUME TypeOK, PlacesInv, Next
  PROVE  PlacesInv'
<1>1. /\ sq' \cap busy' = {} /\ sq' \cap cq' = {} /\ busy' \cap cq' = {}
      /\ rResp' \notin sq' \cup busy' \cup cq'
  <2> DEFINE Apart == /\ sq' \cap busy' = {} /\ sq' \cap cq' = {} /\ busy' \cap cq' = {}
                      /\ rResp' \notin sq' \cup busy' \cup cq'
  <2> SUFFICES Apart
    OBVIOUS
  <2>0. NoCall \notin Requests
    BY CommandAssumption DEF Requests, Cids, Calls
  <2>00. NoCall \notin sq \cup busy \cup cq
    BY <2>0 DEF TypeOK, QueueTypeOK
  <2> USE DEF PlacesInv, respVars, queueVars
  <2>1. ASSUME NEW t \in Threads, Write(t) PROVE Apart
    <3>1. <<cid[t], ThisCall(t)>> \notin Outstanding
      <4> SUFFICES ASSUME <<cid[t], ThisCall(t)>> \in Outstanding PROVE FALSE
        OBVIOUS
      <4>1. PICK r \in Outstanding : r[2][1] = t /\ r[2][2] = calls[t]
        BY DEF ThisCall
      <4>2. calls[t] < calls[t] /\ calls[t] \in Nat
        BY <4>1, <2>1 DEF Write, TypeOK, CallTypeOK
      <4> QED BY <4>2
    <3>2. <<cid[t], ThisCall(t)>> # NoCall
        BY <2>0, MaxCidNat DEF TypeOK, CallTypeOK, Requests, Calls, ThisCall
    <3> QED BY <2>1, <3>1, <3>2 DEF Write, Outstanding
  <2>2. ASSUME NEW t \in Threads, CmdComplete(t) PROVE Apart
    BY <2>2, <2>00 DEF CmdComplete
  <2>3. ASSUME NEW t \in Threads, Refuse(t) \/ Call(t) \/ GiveUp(t) \/ Killed(t) \/
            Expire(t) \/ Acquire(t) \/ GetCid(t) \/ Lock(t) \/ WriteFails(t) \/
            Add(t) \/ Wake(t) \/ CheckTimedOut(t) \/ CheckRcode(t) \/ Abort(t) \/
            GetResponse(t) \/ Done(t) \/ ScanOne(t)
        PROVE Apart
    BY <2>3 DEF Refuse, Call, GiveUp, Killed, Expire, Acquire, GetCid, Lock, WriteFails,
       Add, Wake, CheckTimedOut, CheckRcode, Abort, GetResponse, Done, ScanOne
  <2>4. CASE ReadResponse
    BY <2>4 DEF ReadResponse
  <2>5. CASE Unexpected
    BY <2>5, <2>00 DEF Unexpected
  <2>6. CASE Stop \/ StartCheck \/ FlagTimeout \/ EndCheck
    BY <2>6 DEF Stop, StartCheck, FlagTimeout, EndCheck
  <2>7. CASE Amc
    BY <2>7 DEF Amc, AmcTake, AmcAnswer
  <2> HIDE DEF PlacesInv, respVars, queueVars
  <2>. QED
    BY <2>1, <2>2, <2>3, <2>4, <2>5, <2>6, <2>7
    DEF Next, Step, ResponseThread
<1>2. ASSUME NEW r \in Outstanding', NEW t \in Threads, r[2][1] = t
      PROVE  /\ r[2][2] <= calls'[t]
             /\ pc'[t] \in {"acquire", "cid", "lock", "write"} => r[2][2] < calls'[t]
  <2>1. CASE r \in Outstanding
    <3> DEFINE Before == /\ r[2][2] <= calls'[t]
                         /\ pc'[t] \in {"acquire", "cid", "lock", "write"} => r[2][2] < calls'[t]
    <3>1. /\ r[2][2] \in Nat /\ calls[t] \in Nat /\ r[2][2] <= calls[t]
          /\ pc[t] \in {"acquire", "cid", "lock", "write"} => r[2][2] < calls[t]
      BY <2>1, <1>2, OutstandingTyped DEF PlacesInv, TypeOK, CallTypeOK
    <3>2. \/ calls'[t] = calls[t] /\ pc'[t] \notin {"acquire", "cid", "lock", "write"}
          \/ calls'[t] = calls[t] /\ pc[t] \in {"acquire", "cid", "lock", "write"}
          \/ calls'[t] = calls[t] + 1
      BY StepOfThread
    <3> QED BY <3>1, <3>2
  <2>2. CASE r \notin Outstanding
    <3>1. PICK w \in Threads : Write(w) /\ r = <<cid[w], ThisCall(w)>>
      BY <2>2, OnTheirWay
    <3>2. w = t /\ r[2][2] = calls[t] /\ calls' = calls /\ pc'[t] = "add"
      BY <3>1, <1>2 DEF ThisCall, Write, callVars, TypeOK, CallTypeOK
    <3> QED BY <3>2 DEF TypeOK, CallTypeOK
  <2> QED BY <2>1, <2>2
<1> QED BY <1>1, <1>2 DEF PlacesInv

\* No two calls have the same id, if the next one is fresh.
LEMMA UniqueStep ==
  ASSUME TypeOK, ReturnInv, OwnInv, FreshIds, Next
  PROVE  CidUnique'
<1> SUFFICES ASSUME NEW t \in Threads, NEW u \in Threads, t # u, HasCid(t)', HasCid(u)'
             PROVE  cid'[t] # cid'[u]
  BY DEF CidUnique
<1> DEFINE Kept(v)  == HasCid(v) /\ cid'[v] = cid[v]
           Taken(v) == /\ pc[v] = "cid" /\ pc' = [pc EXCEPT ![v] = "lock"]
                       /\ cid'[v] \in FreeCids /\ CyclicCid(cid'[v])
<1>1. (Kept(t) \/ Taken(t)) /\ (Kept(u) \/ Taken(u))
  BY HadCid
<1>2. CASE Kept(t) /\ Kept(u)
  BY <1>2 DEF OwnInv, CidUnique
<1>3. CASE Kept(t) /\ Taken(u)
  BY <1>3 DEF FreshIds
<1>4. CASE Taken(t) /\ Kept(u)
  BY <1>4 DEF FreshIds
<1>5. ~(Taken(t) /\ Taken(u))
  BY DEF TypeOK, CallTypeOK
<1> QED BY <1>1, <1>2, <1>3, <1>4, <1>5

\* What is on its way with the id of a call is of this call.
LEMMA MatchStep ==
  ASSUME TypeOK, ReturnInv, OwnInv, FreshIds, Next,
         NEW r \in Outstanding', NEW t \in Threads, HasCid(t)', cid'[t] = r[1]
  PROVE  r[2] = ThisCall(t)'
<1>1. CASE r \in Outstanding
  <2>1. HasCid(t) /\ cid'[t] = cid[t] /\ calls'[t] = calls[t]
    BY <1>1, HadCid DEF FreshIds
  <2> QED BY <1>1, <2>1 DEF OwnInv, ThisCall
<1>2. CASE r \notin Outstanding
  <2>1. PICK w \in Threads : Write(w) /\ r = <<cid[w], ThisCall(w)>>
    BY <1>2, OnTheirWay
  <2>2. HasCid(w) /\ cid'[t] = cid[t] /\ calls'[t] = calls[t] /\ cid[t] = cid[w]
    BY <2>1 DEF Write, HasCid, callVars
  <2>3. HasCid(t)
    BY <2>1, HadCid DEF Write, TypeOK, CallTypeOK
  <2>4. t = w
    BY <2>2, <2>3 DEF OwnInv, CidUnique
  <2> QED BY <2>1, <2>2, <2>4 DEF ThisCall
<1> QED BY <1>1, <1>2

\* A caller that was woken has its own response, unless by a timeout.
LEMMA ResponseStep ==
  ASSUME SafetyInv, OwnInv, Next, NEW u \in Threads
  PROVE  /\ pc'[u] \in Fresh => response'[u] = NoCall
         /\ response'[u] \in {NoCall, ThisCall(u)'}
         /\ completed'[u] /\ rcode'[u] = 0 => response'[u] = ThisCall(u)'
         /\ pc'[u] = "response" => response'[u] = ThisCall(u)'
<1> DEFINE Own == /\ pc'[u] \in Fresh => response'[u] = NoCall
                  /\ response'[u] \in {NoCall, ThisCall(u)'}
                  /\ completed'[u] /\ rcode'[u] = 0 => response'[u] = ThisCall(u)'
                  /\ pc'[u] = "response" => response'[u] = ThisCall(u)'
<1> SUFFICES Own
  OBVIOUS
<1>a. /\ pc[u] \in Fresh => response[u] = NoCall /\ ~completed[u]
      /\ response[u] \in {NoCall, ThisCall(u)}
      /\ completed[u] /\ rcode[u] = 0 => response[u] = ThisCall(u)
      /\ pc[u] = "response" => response[u] = ThisCall(u)
      /\ pc[u] = "rcode" => completed[u]
  BY DEF OwnInv, OwnResponse, SafetyInv, WakeInv
<1>b. CallTypeOK /\ WaitTypeOK
  BY DEF SafetyInv, TypeOK
<1>c. \A t \in Threads : t \in submitted /\ HasCid(t) /\ cid[t] = rResp[1] /\ rPc = "complete"
        => rResp[2] = ThisCall(t)
  <2>1. rPc = "complete" => rResp \in Outstanding
    BY DEF SafetyInv, TypeOK, ResponseTypeOK, Outstanding
  <2> QED BY <2>1 DEF OwnInv
<1>d. \A t \in submitted : HasCid(t) /\ pc[t] \in Waiting
  BY DEF SafetyInv, ListInv, Waiting, HasCid
<1> HIDE DEF Own
<1> USE DEF callVars, waitVars, ThisCall, Fresh, CallTypeOK, WaitTypeOK
<1>1. ASSUME NEW t \in Threads, Refuse(t) PROVE Own
  BY <1>a, <1>b, <1>1 DEF Refuse, Own
<1>2. ASSUME NEW t \in Threads, Call(t) PROVE Own
  BY <1>a, <1>b, <1>2 DEF Call, Own
<1>3. ASSUME NEW t \in Threads, GiveUp(t) PROVE Own
  BY <1>a, <1>b, <1>3 DEF GiveUp, Own
<1>4. ASSUME NEW t \in Threads, Killed(t) PROVE Own
  BY <1>a, <1>b, <1>4 DEF Killed, Own
<1>5. ASSUME NEW t \in Threads, Expire(t) PROVE Own
  BY <1>a, <1>b, <1>5 DEF Expire, Own
<1>6. ASSUME NEW t \in Threads, Acquire(t) PROVE Own
  BY <1>a, <1>b, <1>6 DEF Acquire, Own
<1>7. ASSUME NEW t \in Threads, GetCid(t) PROVE Own
  BY <1>a, <1>b, <1>7 DEF GetCid, Own
<1>8. ASSUME NEW t \in Threads, Lock(t) PROVE Own
  BY <1>a, <1>b, <1>8 DEF Lock, Own
<1>9. ASSUME NEW t \in Threads, Write(t) PROVE Own
  BY <1>a, <1>b, <1>9 DEF Write, Own
<1>10. ASSUME NEW t \in Threads, WriteFails(t) PROVE Own
  BY <1>a, <1>b, <1>10 DEF WriteFails, Own
<1>11. ASSUME NEW t \in Threads, Add(t) PROVE Own
  BY <1>a, <1>b, <1>11 DEF Add, Own
<1>12. ASSUME NEW t \in Threads, Wake(t) PROVE Own
  BY <1>a, <1>b, <1>12 DEF Wake, Own
<1>13. ASSUME NEW t \in Threads, CheckTimedOut(t) PROVE Own
  BY <1>a, <1>b, <1>13 DEF CheckTimedOut, Own
<1>14. ASSUME NEW t \in Threads, CheckRcode(t) PROVE Own
  BY <1>a, <1>b, <1>14 DEF CheckRcode, Own
<1>15. ASSUME NEW t \in Threads, Abort(t) PROVE Own
  BY <1>a, <1>b, <1>15 DEF Abort, Own
<1>16. ASSUME NEW t \in Threads, GetResponse(t) PROVE Own
  BY <1>a, <1>b, <1>16 DEF GetResponse, Own
<1>17. ASSUME NEW t \in Threads, Done(t) PROVE Own
  BY <1>a, <1>b, <1>17 DEF Done, Own
<1>18. ASSUME NEW t \in Threads, CmdComplete(t) PROVE Own
  BY <1>a, <1>b, <1>18, <1>c, <1>d DEF CmdComplete, Matching, IsFirst, Waiting, Own
<1>19. ASSUME NEW t \in Threads, ScanOne(t) PROVE Own
  BY <1>a, <1>b, <1>19 DEF ScanOne, ETIME, Own
<1>20. CASE Stop \/ ReadResponse \/ Unexpected \/ StartCheck \/ FlagTimeout \/ EndCheck
  BY <1>a, <1>b, <1>20 DEF Stop, ReadResponse, Unexpected, StartCheck, FlagTimeout, EndCheck, Own
<1>21. CASE Amc
  BY <1>a, <1>b, <1>21 DEF Amc, AmcTake, AmcAnswer, Own
<1> HIDE DEF callVars, waitVars, ThisCall, Fresh, CallTypeOK, WaitTypeOK
<1>. QED
  BY <1>1, <1>2, <1>3, <1>4, <1>5, <1>6, <1>7, <1>8, <1>9, <1>10, <1>11, <1>12, <1>13,
     <1>14, <1>15, <1>16, <1>17, <1>18, <1>19, <1>20, <1>21
  DEF Next, Step, ResponseThread

LEMMA OwnStep ==
  ASSUME SafetyInv, ReturnInv, OwnInv, FreshIds, Next
  PROVE  OwnInv'
<1>1. TypeOK
  BY DEF SafetyInv
<1> QED BY <1>1, UniqueStep, MatchStep, ResponseStep DEF OwnInv, OwnResponse

-----------------------------------------------------------------------------
(* The ids do not come round.                                              *)

\* The assumption: all the calls together are no more than the ids.
FewCalls == IsFiniteSet(AllCalls) /\ Cardinality(AllCalls) <= MaxCid + 1

\* Only get_gcq_cid moves next_cid_id and adds to the xarray.
LEMMA IdStep ==
  ASSUME TypeOK, Next
  PROVE  \/ nextCid' = nextCid /\ cidsUsed' \subseteq cidsUsed
         \/ \E t \in Threads, id \in FreeCids :
              /\ pc[t] = "cid" /\ CyclicCid(id) /\ nextCid' = id + 1
              /\ cidsUsed' = cidsUsed \cup {id}
              /\ calls' = calls /\ pc' = [pc EXCEPT ![t] = "lock"]
<1> DEFINE Same  == nextCid' = nextCid /\ cidsUsed' \subseteq cidsUsed
           Given == \E t \in Threads, id \in FreeCids :
                      /\ pc[t] = "cid" /\ CyclicCid(id) /\ nextCid' = id + 1
                      /\ cidsUsed' = cidsUsed \cup {id}
                      /\ calls' = calls /\ pc' = [pc EXCEPT ![t] = "lock"]
<1> SUFFICES Same \/ Given
  OBVIOUS
<1> HIDE DEF Given
<1> USE DEF cidVars
<1>1. ASSUME NEW t \in Threads, GetCid(t) PROVE Same \/ Given
  BY <1>1 DEF GetCid, Given
<1>2. ASSUME NEW t \in Threads, Done(t) PROVE Same \/ Given
  BY <1>2 DEF Done
<1>3. ASSUME NEW t \in Threads, Refuse(t) \/ Call(t) \/ GiveUp(t) \/ Killed(t) \/
            Expire(t) \/ Acquire(t) \/ Lock(t) \/ Write(t) \/ WriteFails(t) \/
            Add(t) \/ Wake(t) \/ CheckTimedOut(t) \/ CheckRcode(t) \/ Abort(t) \/
            GetResponse(t) \/ CmdComplete(t) \/ ScanOne(t)
      PROVE Same \/ Given
  BY <1>3 DEF Refuse, Call, GiveUp, Killed, Expire, Acquire, Lock, Write, WriteFails,
     Add, Wake, CheckTimedOut, CheckRcode, Abort, GetResponse, CmdComplete, ScanOne
<1>4. CASE Stop \/ ReadResponse \/ Unexpected \/ StartCheck \/ FlagTimeout \/ EndCheck
  BY <1>4 DEF Stop, ReadResponse, Unexpected, StartCheck, FlagTimeout, EndCheck
<1>5. CASE Amc
  BY <1>5 DEF Amc, AmcTake, AmcAnswer
<1> HIDE DEF cidVars
<1>. QED
  BY <1>1, <1>2, <1>3, <1>4, <1>5
  DEF Next, Step, ResponseThread

\* No thread makes more calls than it has to make.
LEMMA CallsStep ==
  ASSUME TypeOK, Next, NEW u \in Threads,
         calls[u] <= MaxCalls[u], pc[u] # "idle" => calls[u] > 0
  PROVE  calls'[u] <= MaxCalls[u] /\ (pc'[u] # "idle" => calls'[u] > 0)
<1> DEFINE Bound == calls'[u] <= MaxCalls[u] /\ (pc'[u] # "idle" => calls'[u] > 0)
<1> SUFFICES Bound
  OBVIOUS
<1>0. MaxCalls[u] \in Nat /\ calls[u] \in Nat
  BY CommandAssumption DEF TypeOK, CallTypeOK
<1> USE DEF callVars, TypeOK, CallTypeOK
<1>1. ASSUME NEW t \in Threads, Refuse(t) PROVE Bound
  BY <1>1, <1>0 DEF Refuse
<1>2. ASSUME NEW t \in Threads, Call(t) PROVE Bound
  BY <1>2, <1>0 DEF Call
<1>3. ASSUME NEW t \in Threads, GiveUp(t) PROVE Bound
  BY <1>3 DEF GiveUp
<1>4. ASSUME NEW t \in Threads, Killed(t) PROVE Bound
  BY <1>4 DEF Killed
<1>5. ASSUME NEW t \in Threads, Acquire(t) PROVE Bound
  BY <1>5 DEF Acquire
<1>6. ASSUME NEW t \in Threads, GetCid(t) PROVE Bound
  BY <1>6 DEF GetCid
<1>7. ASSUME NEW t \in Threads, Lock(t) PROVE Bound
  BY <1>7 DEF Lock
<1>8. ASSUME NEW t \in Threads, Write(t) PROVE Bound
  BY <1>8 DEF Write
<1>9. ASSUME NEW t \in Threads, WriteFails(t) PROVE Bound
  BY <1>9 DEF WriteFails
<1>10. ASSUME NEW t \in Threads, Add(t) PROVE Bound
  BY <1>10 DEF Add
<1>11. ASSUME NEW t \in Threads, Wake(t) PROVE Bound
  BY <1>11 DEF Wake
<1>12. ASSUME NEW t \in Threads, CheckTimedOut(t) PROVE Bound
  BY <1>12 DEF CheckTimedOut
<1>13. ASSUME NEW t \in Threads, CheckRcode(t) PROVE Bound
  BY <1>13 DEF CheckRcode
<1>14. ASSUME NEW t \in Threads, Abort(t) PROVE Bound
  BY <1>14 DEF Abort
<1>15. ASSUME NEW t \in Threads, GetResponse(t) PROVE Bound
  BY <1>15 DEF GetResponse
<1>16. ASSUME NEW t \in Threads, Done(t) PROVE Bound
  BY <1>16 DEF Done
<1>17. ASSUME NEW t \in Threads, Expire(t) \/ CmdComplete(t) \/ ScanOne(t)
      PROVE Bound
  BY <1>17 DEF Expire, CmdComplete, ScanOne
<1>18. CASE Stop \/ ReadResponse \/ Unexpected \/ StartCheck \/ FlagTimeout \/ EndCheck
  BY <1>18 DEF Stop, ReadResponse, Unexpected, StartCheck, FlagTimeout, EndCheck
<1>19. CASE Amc
  BY <1>19 DEF Amc, AmcTake, AmcAnswer
<1> HIDE DEF callVars, TypeOK, CallTypeOK
<1>. QED
  BY <1>1, <1>2, <1>3, <1>4, <1>5, <1>6, <1>7, <1>8, <1>9, <1>10, <1>11, <1>12, <1>13,
     <1>14, <1>15, <1>16, <1>17, <1>18, <1>19
  DEF Next, Step, ResponseThread

\* A call that has asked for an id has asked for it ever after.
LEMMA AskedGrows ==
  ASSUME TypeOK, Next
  PROVE  Asked \subseteq Asked'
<1> SUFFICES ASSUME NEW c \in Asked PROVE c \in Asked'
  OBVIOUS
<1>1. PICK u \in Threads : \E k \in 1 .. MaxCalls[u] : c = <<u, k>>
  BY DEF Asked, AllCalls
<1>a. PICK k \in 1 .. MaxCalls[u] : c = <<u, k>>
  BY <1>1
<1>2. /\ c \in AllCalls /\ c[1] = u /\ c[2] = k /\ MaxCalls[u] \in Nat
      /\ k < calls[u] \/ (k = calls[u] /\ pc[u] \notin {"acquire", "cid"})
  BY <1>a, CommandAssumption DEF Asked
<1>3. k < calls'[u] \/ (k = calls'[u] /\ pc'[u] \notin {"acquire", "cid"})
  BY <1>2, StepOfThread DEF TypeOK, CallTypeOK
<1> QED BY <1>2, <1>3 DEF Asked

\* A call that asks for an id is one that has not asked yet: there is an id left.
LEMMA IdLeft ==
  ASSUME TypeOK, RoundInv, FewCalls, NEW t \in Threads, pc[t] = "cid"
  PROVE  /\ IsFiniteSet(Asked) /\ ThisCall(t) \in AllCalls \ Asked
         /\ nextCid \in FreeCids /\ Cardinality(Asked) \in Nat
<1>1. calls[t] \in 1 .. MaxCalls[t]
  BY CommandAssumption DEF RoundInv, TypeOK, CallTypeOK
<1>2. ThisCall(t) \in AllCalls
  BY <1>1 DEF ThisCall, AllCalls
<1>3. ThisCall(t) \notin Asked
  BY <1>1 DEF ThisCall, Asked
<1>4. Asked \subseteq AllCalls
  BY DEF Asked
<1>5. IsFiniteSet(Asked) /\ Cardinality(Asked) \in Nat
  BY <1>4, FS_Subset, FS_CardinalityType DEF FewCalls
<1>6. /\ Cardinality(Asked \cup {ThisCall(t)}) = Cardinality(Asked) + 1
      /\ Cardinality(Asked \cup {ThisCall(t)}) <= Cardinality(AllCalls)
  BY <1>2, <1>3, <1>4, <1>5, FS_AddElement, FS_Subset DEF FewCalls
<1>7. nextCid \in Cids
  <2>1. Cardinality(AllCalls) \in Nat
    BY FS_CardinalityType DEF FewCalls
  <2> QED BY <1>5, <1>6, <2>1, MaxCidNat DEF RoundInv, FewCalls, TypeOK, DriverTypeOK, Cids
<1>8. nextCid \notin cidsUsed
  BY <1>7, MaxCidNat DEF RoundInv, Cids
<1> QED BY <1>2, <1>3, <1>5, <1>7, <1>8 DEF FreeCids

\* So xa_alloc_cyclic gives the next id, which nobody has had.
LEMMA RoundFresh ==
  ASSUME TypeOK, RoundInv, FewCalls
  PROVE  /\ FreshIds
         /\ \A t \in Threads, id \in FreeCids : pc[t] = "cid" /\ CyclicCid(id) => id = nextCid
<1>1. ASSUME NEW t \in Threads, NEW id \in FreeCids, pc[t] = "cid", CyclicCid(id)
      PROVE  id = nextCid
  <2>1. nextCid \in FreeCids
    BY <1>1, IdLeft
  <2>2. nextCid \in Nat /\ id \in Nat
    BY <2>1, MaxCidNat DEF FreeCids, Cids
  <2> QED BY <1>1, <2>1, <2>2 DEF CyclicCid
<1>2. \A r \in Outstanding : r[1] # nextCid
  BY OutstandingTyped, MaxCidNat DEF RoundInv, Cids, TypeOK, DriverTypeOK
<1>3. \A u \in Threads : HasCid(u) => cid[u] # nextCid
  BY MaxCidNat DEF RoundInv, Cids, TypeOK, DriverTypeOK, CallTypeOK
<1> QED BY <1>1, <1>2, <1>3 DEF FreshIds

LEMMA RoundStep ==
  ASSUME TypeOK, ReturnInv, RoundInv, FewCalls, Next
  PROVE  RoundInv'
<1> USE MaxCidNat
<1> DEFINE Grown == /\ nextCid \in Nat /\ nextCid' \in Nat /\ nextCid <= nextCid'
                    /\ nextCid' <= Cardinality(Asked') /\ \A i \in cidsUsed' : i < nextCid'
<1>1. Grown
  <2>1. IsFiniteSet(Asked') /\ Cardinality(Asked') \in Nat
    BY FS_Subset, FS_CardinalityType DEF FewCalls, Asked
  <2>2. IsFiniteSet(Asked) /\ Cardinality(Asked) \in Nat
    BY FS_Subset, FS_CardinalityType DEF FewCalls, Asked
  <2>3. Cardinality(Asked) <= Cardinality(Asked')
    BY <2>1, AskedGrows, FS_Subset
  <2>4. nextCid \in Nat /\ nextCid <= Cardinality(Asked) /\ \A i \in cidsUsed : i < nextCid
    BY DEF RoundInv, TypeOK, DriverTypeOK
  <2>5. CASE nextCid' = nextCid /\ cidsUsed' \subseteq cidsUsed
    BY <2>1, <2>2, <2>3, <2>4, <2>5
  <2>6. ASSUME NEW t \in Threads, NEW id \in FreeCids, pc[t] = "cid", CyclicCid(id),
               nextCid' = id + 1, cidsUsed' = cidsUsed \cup {id},
               calls' = calls, pc' = [pc EXCEPT ![t] = "lock"]
        PROVE  Grown
    <3>1. id = nextCid
      BY <2>6, RoundFresh
    <3>2. ThisCall(t) \in AllCalls \ Asked /\ ThisCall(t) \in Asked'
      <4>1. ThisCall(t) \in AllCalls \ Asked
        BY <2>6, IdLeft
      <4>2. pc'[t] = "lock" /\ calls'[t] = calls[t]
        BY <2>6 DEF TypeOK, CallTypeOK
      <4> QED BY <4>1, <4>2 DEF Asked, ThisCall
    <3>3. Cardinality(Asked \cup {ThisCall(t)}) = Cardinality(Asked) + 1
      BY <2>2, <3>2, FS_AddElement
    <3>4. Cardinality(Asked \cup {ThisCall(t)}) <= Cardinality(Asked')
      BY <2>1, <3>2, AskedGrows, FS_Subset
    <3>5. \A i \in cidsUsed : i \in Nat
      BY DEF TypeOK, DriverTypeOK, Cids
    <3> QED BY <2>1, <2>2, <2>4, <2>6, <3>1, <3>3, <3>4, <3>5
  <2> QED BY <2>5, <2>6, IdStep
<1>2. ASSUME NEW r \in Outstanding' PROVE r[1] < nextCid'
  <2>1. CASE r \in Outstanding
    BY <1>1, <2>1, OutstandingTyped DEF RoundInv, Cids
  <2>2. ASSUME NEW w \in Threads, Write(w), r = <<cid[w], ThisCall(w)>>
        PROVE  r[1] < nextCid'
    <3>1. HasCid(w) /\ cid[w] \in Nat
      BY <2>2 DEF Write, HasCid, TypeOK, CallTypeOK, Cids
    <3> QED BY <1>1, <2>2, <3>1 DEF RoundInv
  <2> QED BY <2>1, <2>2, OnTheirWay
<1>3. ASSUME NEW t \in Threads, HasCid(t)' PROVE cid'[t] < nextCid'
  <2>1. CASE HasCid(t) /\ cid'[t] = cid[t]
    BY <1>1, <2>1 DEF RoundInv, TypeOK, CallTypeOK, Cids
  <2>2. CASE cid'[t] \in FreeCids /\ nextCid' = cid'[t] + 1
    BY <2>2 DEF FreeCids, Cids
  <2> QED BY <1>3, <2>1, <2>2, HadCid
<1>4. ASSUME NEW t \in Threads
      PROVE  calls'[t] <= MaxCalls[t] /\ (pc'[t] # "idle" => calls'[t] > 0)
  BY CallsStep DEF RoundInv
<1> QED BY <1>1, <1>2, <1>3, <1>4 DEF RoundInv

\* The invariants begin, and nothing changes them but Next.
LEMMA OwnBegins == Init => SafetyInv /\ LeakInv /\ PlacesInv /\ OwnInv
<1> SUFFICES ASSUME Init PROVE SafetyInv /\ LeakInv /\ PlacesInv /\ OwnInv
  OBVIOUS
<1>1. Outstanding = {}
  BY DEF Init, Outstanding
<1>2. ListInv /\ WakeInv /\ AllocInv /\ ReturnInv /\ NothingLeaks
  BY DEF Init, ListInv, WakeInv, AllocInv, ReturnInv, NothingLeaks, CidsHeld, LocksHeld
<1>3. PlacesInv
  BY <1>1 DEF Init, PlacesInv
<1>4. OwnInv
  BY <1>1 DEF Init, OwnInv, CidUnique, OwnResponse, HasCid
<1> QED BY <1>2, <1>3, <1>4, InitTypes DEF SafetyInv, LeakInv

BaseInv == SafetyInv /\ LeakInv /\ PlacesInv

LEMMA BaseStep == BaseInv /\ [Next]_vars => BaseInv'
<1>1. ASSUME BaseInv, Next PROVE BaseInv'
  BY <1>1, NextTypes, ListStep, WakeStep, AllocStep, ReturnStep, CidsStep, LocksStep, PlacesStep
  DEF BaseInv, SafetyInv, LeakInv, NothingLeaks
<1>2. ASSUME BaseInv, UNCHANGED vars PROVE BaseInv'
  <2>1. TypeOK'
    BY <1>2, StutterTypes DEF BaseInv, SafetyInv
  <2>2. (ListInv /\ WakeInv /\ AllocInv)'
    BY <1>2 DEF BaseInv, SafetyInv, ListInv, WakeInv, AllocInv, InstLockFree, vars,
                callVars, waitVars, listVars, respVars
  <2>3. (ReturnInv /\ NothingLeaks)'
    BY <1>2 DEF BaseInv, LeakInv, ReturnInv, NothingLeaks, CidsHeld, LocksHeld, HasCid,
                vars, callVars, cidVars
  <2>4. PlacesInv'
    BY <1>2 DEF BaseInv, PlacesInv, Outstanding, vars, callVars, respVars, queueVars
  <2> QED BY <2>1, <2>2, <2>3, <2>4 DEF BaseInv, SafetyInv, LeakInv
<1> QED BY <1>1, <1>2

LEMMA OwnStutters ==
  ASSUME UNCHANGED vars
  PROVE  (OwnInv => OwnInv') /\ (RoundInv => RoundInv')
<1> USE DEF vars, callVars, waitVars, cidVars, respVars, queueVars, Outstanding, HasCid
<1>1. OwnInv => OwnInv'
  BY DEF OwnInv, CidUnique, OwnResponse, ThisCall
<1>2. Asked' = Asked
  BY DEF Asked
<1>3. RoundInv => RoundInv'
  BY <1>2 DEF RoundInv
<1> QED BY <1>1, <1>3

LEMMA RoundCorrect ==
  ASSUME FewCalls
  PROVE  Spec => [](BaseInv /\ OwnInv /\ RoundInv)
<1>1. Init => BaseInv /\ OwnInv /\ RoundInv
  <2> SUFFICES ASSUME Init PROVE RoundInv
    BY OwnBegins DEF BaseInv
  <2>1. IsFiniteSet(Asked) /\ Cardinality(Asked) \in Nat
    BY FS_Subset, FS_CardinalityType DEF FewCalls, Asked
  <2>2. Outstanding = {}
    BY DEF Init, Outstanding
  <2> QED BY <2>1, <2>2, CommandAssumption DEF Init, RoundInv, HasCid
<1>2. BaseInv /\ OwnInv /\ RoundInv /\ [Next]_vars => (BaseInv /\ OwnInv /\ RoundInv)'
  <2>1. ASSUME BaseInv, OwnInv, RoundInv, Next PROVE OwnInv' /\ RoundInv'
    <3>1. TypeOK /\ ReturnInv /\ SafetyInv
      BY <2>1 DEF BaseInv, SafetyInv, LeakInv
    <3> QED BY <2>1, <3>1, RoundFresh, OwnStep, RoundStep
  <2> QED BY <2>1, BaseStep, OwnStutters
<1> QED BY <1>1, <1>2, PTL DEF Spec

\* As long as the ids have not come round, each command in flight has an id of
\* its own, and a call that succeeds got the answer to its own request: whoever
\* is killed, times out or gives up, and however late the AMC answers.
THEOREM OwnUntilRound ==
  ASSUME FewCalls
  PROVE  Spec => [](CidUnique /\ OwnResponse)
<1>1. OwnInv => CidUnique /\ OwnResponse
  BY DEF OwnInv
<1> QED BY <1>1, RoundCorrect, PTL

-----------------------------------------------------------------------------
(* Calls that are waited for.                                              *)

\* A response that completes a command is the one the command waits for.
LEMMA CompletedByOwn ==
  ASSUME SafetyInv, OwnInv, NEW t \in Threads, CmdComplete(t)
  PROVE  /\ rResp = <<cid[t], ThisCall(t)>> /\ rResp \in Outstanding /\ rResp # NoCall
         /\ pc[t] \in Waiting
<1>1. t \in submitted /\ cid[t] = rResp[1] /\ rPc = "complete"
  BY DEF CmdComplete, IsFirst, Matching
<1>2. rResp \in Outstanding /\ rResp # NoCall
  BY <1>1 DEF SafetyInv, TypeOK, ResponseTypeOK, Outstanding
<1>3. pc[t] \in Waiting /\ HasCid(t)
  BY <1>1 DEF SafetyInv, ListInv, Waiting, HasCid
<1>4. rResp[2] = ThisCall(t)
  BY <1>1, <1>2, <1>3 DEF OwnInv
<1>5. rResp = <<rResp[1], rResp[2]>>
  BY <1>2, OutstandingTyped DEF SafetyInv
<1> QED BY <1>1, <1>2, <1>3, <1>4, <1>5

\* What waits to be answered is waited for.
LEMMA StillWaits ==
  ASSUME SafetyInv, PlacesInv, OwnInv, WaitedInv, Next,
         NEW u \in Waited, NEW r \in Outstanding, r \in Outstanding', r[2][1] = u
  PROVE  r = <<cid'[u], ThisCall(u)'>> /\ pc'[u] \in {"add", "wait"} /\ ~completed'[u]
<1> DEFINE Still == /\ cid'[u] = cid[u] /\ calls'[u] = calls[u]
                    /\ pc'[u] \in {"add", "wait"} /\ ~completed'[u]
<1>a. /\ r = <<cid[u], ThisCall(u)>> /\ pc[u] \in {"add", "wait"} /\ ~completed[u]
      /\ u \in Threads /\ u \notin Signalled /\ u \notin Expirable /\ ~expired[u]
  BY DEF WaitedInv, Waited
<1> SUFFICES Still
  BY <1>a DEF ThisCall
<1>b. CallTypeOK /\ WaitTypeOK
  BY DEF SafetyInv, TypeOK
<1>c. ASSUME CmdComplete(u) PROVE FALSE
  <2>1. r = rResp /\ r # NoCall
    BY <1>a, <1>c, CompletedByOwn
  <2>2. r \notin sq \cup busy \cup cq
    BY <2>1 DEF PlacesInv
  <2>3. r \notin Outstanding'
    BY <1>c, <2>1, <2>2 DEF CmdComplete, Outstanding, queueVars
  <2> QED BY <2>3
<1> HIDE DEF Still
<1> USE DEF callVars, waitVars, CallTypeOK, WaitTypeOK
<1>1. ASSUME NEW t \in Threads, Refuse(t) PROVE Still
  BY <1>a, <1>b, <1>1 DEF Refuse, Still
<1>2. ASSUME NEW t \in Threads, Call(t) PROVE Still
  BY <1>a, <1>b, <1>2 DEF Call, Still
<1>3. ASSUME NEW t \in Threads, GiveUp(t) PROVE Still
  BY <1>a, <1>b, <1>3 DEF GiveUp, Still
<1>4. ASSUME NEW t \in Threads, Killed(t) PROVE Still
  BY <1>a, <1>b, <1>4 DEF Killed, Still
<1>5. ASSUME NEW t \in Threads, Expire(t) PROVE Still
  BY <1>a, <1>b, <1>5 DEF Expire, Still
<1>6. ASSUME NEW t \in Threads, Acquire(t) PROVE Still
  BY <1>a, <1>b, <1>6 DEF Acquire, Still
<1>7. ASSUME NEW t \in Threads, GetCid(t) PROVE Still
  BY <1>a, <1>b, <1>7 DEF GetCid, Still
<1>8. ASSUME NEW t \in Threads, Lock(t) PROVE Still
  BY <1>a, <1>b, <1>8 DEF Lock, Still
<1>9. ASSUME NEW t \in Threads, Write(t) PROVE Still
  BY <1>a, <1>b, <1>9 DEF Write, Still
<1>10. ASSUME NEW t \in Threads, WriteFails(t) PROVE Still
  BY <1>a, <1>b, <1>10 DEF WriteFails, Still
<1>11. ASSUME NEW t \in Threads, Add(t) PROVE Still
  BY <1>a, <1>b, <1>11 DEF Add, Still
<1>12. ASSUME NEW t \in Threads, Wake(t) PROVE Still
  BY <1>a, <1>b, <1>12 DEF Wake, Still
<1>13. ASSUME NEW t \in Threads, CheckTimedOut(t) PROVE Still
  BY <1>a, <1>b, <1>13 DEF CheckTimedOut, Still
<1>14. ASSUME NEW t \in Threads, CheckRcode(t) PROVE Still
  BY <1>a, <1>b, <1>14 DEF CheckRcode, Still
<1>15. ASSUME NEW t \in Threads, Abort(t) PROVE Still
  BY <1>a, <1>b, <1>15 DEF Abort, Still
<1>16. ASSUME NEW t \in Threads, GetResponse(t) PROVE Still
  BY <1>a, <1>b, <1>16 DEF GetResponse, Still
<1>17. ASSUME NEW t \in Threads, Done(t) PROVE Still
  BY <1>a, <1>b, <1>17 DEF Done, Still
<1>18. ASSUME NEW t \in Threads, CmdComplete(t) PROVE Still
  BY <1>a, <1>b, <1>18, <1>c DEF CmdComplete, Still
<1>19. ASSUME NEW t \in Threads, ScanOne(t) PROVE Still
  BY <1>a, <1>b, <1>19 DEF ScanOne, Still
<1>20. CASE Stop \/ ReadResponse \/ Unexpected \/ StartCheck \/ FlagTimeout \/ EndCheck
  BY <1>a, <1>b, <1>20 DEF Stop, ReadResponse, Unexpected, StartCheck, FlagTimeout, EndCheck, Still
<1>21. CASE Amc
  BY <1>a, <1>b, <1>21 DEF Amc, AmcTake, AmcAnswer, Still
<1> HIDE DEF callVars, waitVars, CallTypeOK, WaitTypeOK
<1>. QED
  BY <1>1, <1>2, <1>3, <1>4, <1>5, <1>6, <1>7, <1>8, <1>9, <1>10, <1>11, <1>12, <1>13,
     <1>14, <1>15, <1>16, <1>17, <1>18, <1>19, <1>20, <1>21
  DEF Next, Step, ResponseThread
\* A thread that does not expire is not timed out.
LEMMA NotTimedOut ==
  ASSUME SafetyInv, WaitedInv, Next, NEW u \in Waited
  PROVE  ~expired'[u] /\ ~timedOut'[u] /\ rcode'[u] = 0 /\ rCmd' # u
<1> DEFINE Calm == ~expired'[u] /\ ~timedOut'[u] /\ rcode'[u] = 0 /\ rCmd' # u
<1> SUFFICES Calm
  OBVIOUS
<1>a. /\ ~expired[u] /\ ~timedOut[u] /\ rcode[u] = 0 /\ rCmd # u
      /\ u \in Threads /\ u \notin Expirable /\ u # NoThread
  BY CommandAssumption DEF WaitedInv, Waited
<1>b. WaitTypeOK
  BY DEF SafetyInv, TypeOK
<1> HIDE DEF Calm
<1> USE DEF waitVars, respVars, WaitTypeOK
<1>1. ASSUME NEW t \in Threads, Expire(t) PROVE Calm
  BY <1>a, <1>b, <1>1 DEF Expire, Calm
<1>2. ASSUME NEW t \in Threads, Done(t) PROVE Calm
  BY <1>a, <1>b, <1>2 DEF Done, Calm
<1>3. ASSUME NEW t \in Threads, CmdComplete(t) PROVE Calm
  BY <1>a, <1>b, <1>3 DEF CmdComplete, Calm
<1>4. ASSUME NEW t \in Threads, ScanOne(t) PROVE Calm
  BY <1>a, <1>b, <1>4 DEF ScanOne, Calm
<1>5. ASSUME NEW t \in Threads, Refuse(t) \/ Call(t) \/ GiveUp(t) \/ Killed(t) \/
            Acquire(t) \/ GetCid(t) \/ Lock(t) \/ Write(t) \/ WriteFails(t) \/
            Add(t) \/ Wake(t) \/ CheckTimedOut(t) \/ CheckRcode(t) \/ Abort(t) \/
            GetResponse(t)
      PROVE Calm
  BY <1>a, <1>b, <1>5 DEF Refuse, Call, GiveUp, Killed, Acquire, GetCid, Lock, Write, WriteFails,
     Add, Wake, CheckTimedOut, CheckRcode, Abort, GetResponse, Calm
<1>6. CASE FlagTimeout
  BY <1>a, <1>b, <1>6 DEF FlagTimeout, Calm
<1>7. CASE Stop \/ ReadResponse \/ Unexpected \/ StartCheck \/ EndCheck
  BY <1>a, <1>b, <1>7 DEF Stop, ReadResponse, Unexpected, StartCheck, EndCheck, Calm
<1>8. CASE Amc
  BY <1>a, <1>b, <1>8 DEF Amc, AmcTake, AmcAnswer, Calm
<1> HIDE DEF waitVars, respVars, WaitTypeOK
<1>. QED
  BY <1>1, <1>2, <1>3, <1>4, <1>5, <1>6, <1>7, <1>8
  DEF Next, Step, ResponseThread
LEMMA WaitedStep ==
  ASSUME SafetyInv, PlacesInv, OwnInv, WaitedInv, Next
  PROVE  WaitedInv'
<1>1. ASSUME NEW r \in Outstanding', NEW t \in Waited, r[2][1] = t
      PROVE  r = <<cid'[t], ThisCall(t)'>> /\ pc'[t] \in {"add", "wait"} /\ ~completed'[t]
  <2>1. CASE r \in Outstanding
    BY <1>1, <2>1, StillWaits
  <2>2. ASSUME NEW w \in Threads, Write(w), r = <<cid[w], ThisCall(w)>>
        PROVE  r = <<cid'[t], ThisCall(t)'>> /\ pc'[t] \in {"add", "wait"} /\ ~completed'[t]
    <3>1. w = t /\ ~completed[t]
      BY <1>1, <2>2 DEF ThisCall, Write, SafetyInv, WakeInv, Fresh
    <3>2. pc'[t] = "add" /\ UNCHANGED <<calls, cid, completed>>
      BY <2>2, <3>1 DEF Write, callVars, waitVars, SafetyInv, TypeOK, CallTypeOK
    <3> QED BY <2>2, <3>1, <3>2 DEF ThisCall
  <2> QED BY <2>1, <2>2, OnTheirWay DEF SafetyInv
<1> QED BY <1>1, NotTimedOut DEF WaitedInv, Waited

-----------------------------------------------------------------------------
(* Without calls that give up, ids may come round for ever.                *)

\* The assumption: no call is killed, expires or is refused with its page held,
\* and there is an id for each thread.
NoneGivesUp ==
  /\ Signalled = {} /\ Expirable = {} /\ Rejected = {}
  /\ IsFiniteSet(Threads) /\ Cardinality(Threads) <= MaxCid + 1

\* There are ids for all threads.
LEMMA IdForAll ==
  ASSUME TypeOK, CidsHeld, NoneGivesUp, NEW t \in Threads, pc[t] = "cid"
  PROVE  FreeCids # {}
<1> SUFFICES ASSUME Cids \subseteq cidsUsed PROVE FALSE
  BY DEF FreeCids
<1> DEFINE H == {u \in Threads : HasCid(u)}
           f == [u \in H |-> cid[u]]
<1>1. f \in Surjection(H, Cids)
  BY DEF Surjection, CidsHeld, TypeOK, CallTypeOK
<1>2. H \subseteq Threads \ {t}
  BY DEF HasCid
<1>3. IsFiniteSet(Threads \ {t}) /\ Cardinality(Threads \ {t}) = Cardinality(Threads) - 1
  BY FS_RemoveElement DEF NoneGivesUp
<1> HIDE DEF f, H
<1>4. IsFiniteSet(H) /\ Cardinality(H) <= Cardinality(Threads) - 1
  BY <1>2, <1>3, FS_Subset
<1>5. Cardinality(Cids) <= Cardinality(H) /\ Cardinality(Cids) = MaxCid + 1
  BY <1>1, <1>4, FS_Surjection, FS_Interval, MaxCidNat DEF Cids
<1>6. Cardinality(H) \in Nat /\ Cardinality(Threads) \in Nat
  BY <1>4, FS_CardinalityType DEF NoneGivesUp
<1> QED BY <1>4, <1>5, <1>6, MaxCidNat DEF NoneGivesUp

LEMMA HeldFresh ==
  ASSUME TypeOK, WaitedInv, HeldInv, NoneGivesUp
  PROVE  FreshIds
<1>1. Waited = Threads
  BY DEF Waited, NoneGivesUp
<1>2. ASSUME NEW r \in Outstanding PROVE r[1] \in cidsUsed
  <2>1. PICK t \in Threads : r[2][1] = t
    BY OutstandingTyped
  <2>2. r[1] = cid[t] /\ HasCid(t)
    BY <1>1, <2>1 DEF WaitedInv, HasCid
  <2> QED BY <2>2 DEF HeldInv
<1> QED BY <1>2 DEF HeldInv, FreshIds, FreeCids

\* Every way to the done label passes through get_gcq_cid.
LEMMA ReturnsWithId ==
  ASSUME TypeOK, ReturnInv, CidsHeld, HeldInv, NoneGivesUp, Next,
         NEW u \in Threads, pc'[u] = "done"
  PROVE  ret'[u] \notin {"EIO", "EBUSY"}
<1> DEFINE Through == ret'[u] \notin {"EIO", "EBUSY"}
<1> SUFFICES Through
  OBVIOUS
<1>a. /\ pc[u] = "done" => ret[u] \notin {"EIO", "EBUSY"}
      /\ pc[u] = "abort" => ret[u] \notin {"EIO", "EBUSY"}
      /\ Signalled = {} /\ Rejected = {}
  BY DEF HeldInv, ReturnInv, NoneGivesUp
<1>b. CallTypeOK
  BY DEF TypeOK
<1>c. \A t \in Threads : pc[t] = "cid" => FreeCids # {}
  BY IdForAll
<1> HIDE DEF Through
<1> USE DEF callVars, CallTypeOK
<1>1. ASSUME NEW t \in Threads, Call(t) PROVE Through
  BY <1>a, <1>b, <1>1 DEF Call, Through
<1>2. ASSUME NEW t \in Threads, GiveUp(t) PROVE Through
  BY <1>a, <1>b, <1>2 DEF GiveUp, Through
<1>3. ASSUME NEW t \in Threads, Killed(t) PROVE Through
  BY <1>a, <1>b, <1>3 DEF Killed, Through
<1>4. ASSUME NEW t \in Threads, Acquire(t) PROVE Through
  BY <1>a, <1>b, <1>4 DEF Acquire, Through
<1>5. ASSUME NEW t \in Threads, GetCid(t) PROVE Through
  BY <1>a, <1>b, <1>5, <1>c DEF GetCid, Through
<1>6. ASSUME NEW t \in Threads, Lock(t) PROVE Through
  BY <1>a, <1>b, <1>6 DEF Lock, Through
<1>7. ASSUME NEW t \in Threads, Write(t) PROVE Through
  BY <1>a, <1>b, <1>7 DEF Write, Through
<1>8. ASSUME NEW t \in Threads, WriteFails(t) PROVE Through
  BY <1>a, <1>b, <1>8 DEF WriteFails, Through
<1>9. ASSUME NEW t \in Threads, Add(t) PROVE Through
  BY <1>a, <1>b, <1>9 DEF Add, Through
<1>10. ASSUME NEW t \in Threads, Wake(t) PROVE Through
  BY <1>a, <1>b, <1>10 DEF Wake, Through
<1>11. ASSUME NEW t \in Threads, CheckTimedOut(t) PROVE Through
  BY <1>a, <1>b, <1>11 DEF CheckTimedOut, Through
<1>12. ASSUME NEW t \in Threads, CheckRcode(t) PROVE Through
  BY <1>a, <1>b, <1>12 DEF CheckRcode, Through
<1>13. ASSUME NEW t \in Threads, Abort(t) PROVE Through
  BY <1>a, <1>b, <1>13 DEF Abort, Through
<1>14. ASSUME NEW t \in Threads, GetResponse(t) PROVE Through
  BY <1>a, <1>b, <1>14 DEF GetResponse, Through
<1>15. ASSUME NEW t \in Threads, Done(t) PROVE Through
  BY <1>a, <1>b, <1>15 DEF Done, Through
<1>16. ASSUME NEW t \in Threads, Refuse(t) \/ Expire(t) \/ CmdComplete(t) \/
            ScanOne(t)
      PROVE Through
  BY <1>a, <1>b, <1>16 DEF Refuse, Expire, CmdComplete, ScanOne, Through
<1>17. CASE Stop \/ ReadResponse \/ Unexpected \/ StartCheck \/ FlagTimeout \/ EndCheck
  BY <1>a, <1>b, <1>17 DEF Stop, ReadResponse, Unexpected, StartCheck, FlagTimeout, EndCheck,
     Through
<1>18. CASE Amc
  BY <1>a, <1>b, <1>18 DEF Amc, AmcTake, AmcAnswer, Through
<1> HIDE DEF callVars, CallTypeOK
<1>. QED
  BY <1>1, <1>2, <1>3, <1>4, <1>5, <1>6, <1>7, <1>8, <1>9, <1>10, <1>11, <1>12, <1>13,
     <1>14, <1>15, <1>16, <1>17, <1>18
  DEF Next, Step, ResponseThread

\* Only the done label gives an id back, that of a call which has one.
LEMMA IdGoesBack ==
  ASSUME TypeOK, HeldInv, Next, NEW i \in cidsUsed, i \notin cidsUsed'
  PROVE  \E t \in Threads : HasCid(t) /\ ~HasCid(t)' /\ cid[t] = i
<1> DEFINE Back == \E t \in Threads : HasCid(t) /\ ~HasCid(t)' /\ cid[t] = i
<1> SUFFICES Back
  OBVIOUS
<1> HIDE DEF Back
<1> USE DEF cidVars
<1>1. ASSUME NEW t \in Threads, Done(t) PROVE Back
  <2>1. cid[t] = i /\ pc[t] = "done" /\ pc'[t] = "idle"
    BY <1>1 DEF Done, GivenBack, TypeOK, CallTypeOK
  <2> QED BY <2>1 DEF Back, HeldInv, HasCid
<1>2. ASSUME ~ \E t \in Threads : Done(t) PROVE cidsUsed \subseteq cidsUsed'
  BY <1>2 DEF Next, Step, ResponseThread, Amc, Refuse, Call, GiveUp, Killed, Expire,
     Acquire, GetCid, Lock, Write, WriteFails, Add, Wake, CheckTimedOut, CheckRcode,
     Abort, GetResponse, CmdComplete, ScanOne, Stop, ReadResponse, Unexpected,
     StartCheck, FlagTimeout, EndCheck, AmcTake, AmcAnswer
<1> QED BY <1>1, <1>2

LEMMA HeldStep ==
  ASSUME TypeOK, ReturnInv, CidsHeld, OwnInv, HeldInv, NoneGivesUp, Next
  PROVE  HeldInv'
<1>1. ASSUME NEW t \in Threads, HasCid(t)' PROVE cid'[t] \in cidsUsed'
  <2>1. CASE HasCid(t) /\ cid'[t] = cid[t]
    <3> SUFFICES ASSUME cid[t] \notin cidsUsed' PROVE FALSE
      BY <2>1
    <3>1. cid[t] \in cidsUsed
      BY <2>1 DEF HeldInv
    <3>2. PICK w \in Threads : HasCid(w) /\ ~HasCid(w)' /\ cid[w] = cid[t]
      BY <3>1, IdGoesBack
    <3> QED BY <1>1, <2>1, <3>2 DEF OwnInv, CidUnique
  <2>2. CASE cidsUsed' = cidsUsed \cup {cid'[t]}
    BY <2>2
  <2> QED BY <1>1, <2>1, <2>2, HadCid
<1> QED BY <1>1, ReturnsWithId DEF HeldInv

-----------------------------------------------------------------------------
(* The shared pages.                                                       *)

\* The assumption: who uses a page is neither killed nor timed out.
PagesWaited == \A t \in Threads : Kind[t] # "plain" => t \in Waited

PageBase == SafetyInv /\ LeakInv /\ PlacesInv /\ OwnInv /\ WaitedInv /\ PageInv /\ PagesWaited

\* A call holds the semaphore of its page until it is done.
LEMMA SemaStep ==
  ASSUME TypeOK, PageInv, Next, NEW u \in Threads, Kind[u] # "plain",
         pc'[u] \notin {"idle", "acquire", "done"}
  PROVE  sema'[Kind[u]] = u
<1> DEFINE Holds == sema'[Kind[u]] = u
<1> SUFFICES Holds
  OBVIOUS
<1>a. /\ pc[u] \notin {"idle", "acquire", "done"} => sema[Kind[u]] = u
      /\ pc'[u] \notin {"idle", "acquire", "done"}
      /\ Kind[u] \in Pages /\ u # NoThread
  BY CommandAssumption DEF PageInv, Pages
<1>b. CallTypeOK /\ DriverTypeOK
  BY DEF TypeOK
<1> HIDE DEF Holds
<1> USE DEF callVars, CallTypeOK
<1>1. ASSUME NEW t \in Threads, Refuse(t) PROVE Holds
  BY <1>a, <1>b, <1>1 DEF Refuse, Holds
<1>2. ASSUME NEW t \in Threads, Call(t) PROVE Holds
  <2>1. u # t
    BY <1>a, <1>b, <1>2 DEF Call
  <2> QED BY <1>a, <1>b, <1>2, <2>1 DEF Call, Holds
<1>3. ASSUME NEW t \in Threads, GiveUp(t) PROVE Holds
  BY <1>a, <1>b, <1>3 DEF GiveUp, Holds
<1>4. ASSUME NEW t \in Threads, Killed(t) PROVE Holds
  BY <1>a, <1>b, <1>4 DEF Killed, Holds
<1>5. ASSUME NEW t \in Threads, Expire(t) PROVE Holds
  BY <1>a, <1>b, <1>5 DEF Expire, Holds
<1>6. ASSUME NEW t \in Threads, Acquire(t) PROVE Holds
  BY <1>a, <1>b, <1>6 DEF Acquire, PageFree, DriverTypeOK, Holds
<1>7. ASSUME NEW t \in Threads, GetCid(t) PROVE Holds
  BY <1>a, <1>b, <1>7 DEF GetCid, Holds
<1>8. ASSUME NEW t \in Threads, Lock(t) PROVE Holds
  BY <1>a, <1>b, <1>8 DEF Lock, Holds
<1>9. ASSUME NEW t \in Threads, Write(t) PROVE Holds
  BY <1>a, <1>b, <1>9 DEF Write, Holds
<1>10. ASSUME NEW t \in Threads, WriteFails(t) PROVE Holds
  BY <1>a, <1>b, <1>10 DEF WriteFails, Holds
<1>11. ASSUME NEW t \in Threads, Add(t) PROVE Holds
  BY <1>a, <1>b, <1>11 DEF Add, Holds
<1>12. ASSUME NEW t \in Threads, Wake(t) PROVE Holds
  BY <1>a, <1>b, <1>12 DEF Wake, Holds
<1>13. ASSUME NEW t \in Threads, CheckTimedOut(t) PROVE Holds
  BY <1>a, <1>b, <1>13 DEF CheckTimedOut, Holds
<1>14. ASSUME NEW t \in Threads, CheckRcode(t) PROVE Holds
  BY <1>a, <1>b, <1>14 DEF CheckRcode, Holds
<1>15. ASSUME NEW t \in Threads, Abort(t) PROVE Holds
  BY <1>a, <1>b, <1>15 DEF Abort, Holds
<1>16. ASSUME NEW t \in Threads, GetResponse(t) PROVE Holds
  BY <1>a, <1>b, <1>16 DEF GetResponse, Holds
<1>17. ASSUME NEW t \in Threads, Done(t) PROVE Holds
  BY <1>a, <1>b, <1>17 DEF Done, DriverTypeOK, Holds
<1>18. ASSUME NEW t \in Threads, CmdComplete(t) PROVE Holds
  BY <1>a, <1>b, <1>18 DEF CmdComplete, Holds
<1>19. ASSUME NEW t \in Threads, ScanOne(t) PROVE Holds
  BY <1>a, <1>b, <1>19 DEF ScanOne, Holds
<1>20. CASE Stop \/ ReadResponse \/ Unexpected \/ StartCheck \/ FlagTimeout \/ EndCheck
  BY <1>a, <1>b, <1>20 DEF Stop, ReadResponse, Unexpected, StartCheck, FlagTimeout, EndCheck, Holds
<1>21. CASE Amc
  BY <1>a, <1>b, <1>21 DEF Amc, AmcTake, AmcAnswer, Holds
<1> HIDE DEF callVars, CallTypeOK
<1>. QED
  BY <1>1, <1>2, <1>3, <1>4, <1>5, <1>6, <1>7, <1>8, <1>9, <1>10, <1>11, <1>12, <1>13,
     <1>14, <1>15, <1>16, <1>17, <1>18, <1>19, <1>20, <1>21
  DEF Next, Step, ResponseThread
\* A page is written by the call that takes its semaphore, or for an answer.
LEMMA PageMoves ==
  ASSUME TypeOK, Next, NEW p \in Pages
  PROVE  \/ page'[p] = page[p]
         \/ sema[p] = NoThread
         \/ \E r \in busy : AmcAnswer(r) /\ Kind[r[2][1]] = p /\ page'[p] = r[2]
<1> DEFINE Written == \/ page'[p] = page[p]
                      \/ sema[p] = NoThread
                      \/ \E r \in busy : AmcAnswer(r) /\ Kind[r[2][1]] = p /\ page'[p] = r[2]
<1> SUFFICES Written
  OBVIOUS
<1> HIDE DEF Written
<1>0. page \in [Pages -> Calls \cup {NoCall}]
  BY DEF TypeOK, QueueTypeOK
<1>1. ASSUME NEW t \in Threads, Acquire(t) PROVE Written
  BY <1>1, <1>0 DEF Acquire, PageFree, Written
<1>2. ASSUME NEW t \in Threads, Refuse(t) \/ Call(t) \/ GiveUp(t) \/ Killed(t) \/
            Expire(t) \/ GetCid(t) \/ Lock(t) \/ Write(t) \/ WriteFails(t) \/
            Add(t) \/ Wake(t) \/ CheckTimedOut(t) \/ CheckRcode(t) \/ Abort(t) \/
            GetResponse(t) \/ Done(t) \/ CmdComplete(t) \/ ScanOne(t)
      PROVE Written
  BY <1>2 DEF Refuse, Call, GiveUp, Killed, Expire, GetCid, Lock, Write, WriteFails,
     Add, Wake, CheckTimedOut, CheckRcode, Abort, GetResponse, Done, CmdComplete,
     ScanOne, Written
<1>3. CASE Stop \/ ReadResponse \/ Unexpected \/ StartCheck \/ FlagTimeout \/ EndCheck
  BY <1>3 DEF Stop, ReadResponse, Unexpected, StartCheck, FlagTimeout, EndCheck, Written
<1>4. CASE Amc
  <2>1. CASE \E r \in sq : AmcTake(r)
    BY <2>1 DEF AmcTake, Written
  <2>2. ASSUME NEW r \in busy, AmcAnswer(r) PROVE Written
    BY <2>2 DEF AmcAnswer, Written
  <2> QED BY <1>4, <2>1, <2>2 DEF Amc
<1>. QED
  BY <1>1, <1>2, <1>3, <1>4
  DEF Next, Step, ResponseThread

\* What a thread with a page waits for is its own, and the page is its own.
LEMMA Holder ==
  ASSUME PageBase, NEW r \in Outstanding, NEW u \in Threads, r[2][1] = u, Kind[u] # "plain"
  PROVE  /\ r[2] = ThisCall(u) /\ pc[u] \in {"add", "wait"} /\ ~completed[u]
         /\ sema[Kind[u]] = u
<1>1. /\ r = <<cid[u], ThisCall(u)>> /\ pc[u] \in {"add", "wait"} /\ ~completed[u]
  BY DEF PageBase, PagesWaited, WaitedInv
<1> QED BY <1>1 DEF PageBase, PageInv

\* A page keeps the data of the call that holds its semaphore.
LEMMA PageKept ==
  ASSUME PageBase, Next, NEW u \in Threads, Kind[u] # "plain", pc[u] # "idle",
         sema[Kind[u]] = u, page[Kind[u]] = ThisCall(u)
  PROVE  page'[Kind[u]] = ThisCall(u)'
<1>1. TypeOK /\ Kind[u] \in Pages /\ u # NoThread
  BY CommandAssumption DEF PageBase, SafetyInv, Pages
<1>2. ThisCall(u)' = ThisCall(u)
  BY <1>1, StepOfThread DEF ThisCall
<1>3. ASSUME NEW r \in busy, AmcAnswer(r), Kind[r[2][1]] = Kind[u], page'[Kind[u]] = r[2]
      PROVE  page'[Kind[u]] = ThisCall(u)
  <2>1. r \in Outstanding
    BY DEF Outstanding
  <2>2. PICK v \in Threads : r[2][1] = v
    BY <1>1, <2>1, OutstandingTyped
  <2>3. sema[Kind[v]] = v /\ r[2] = ThisCall(v)
    BY <1>3, <2>1, <2>2, Holder
  <2> QED BY <1>3, <2>2, <2>3
<1> QED BY <1>1, <1>2, <1>3, PageMoves

\* Only a response or a timeout wakes a caller.
LEMMA CompletedStep ==
  ASSUME SafetyInv, Next, NEW u \in Threads, completed'[u], pc'[u] # "done"
  PROVE  \/ completed[u] /\ pc[u] # "done"
         \/ CmdComplete(u) \/ rcode'[u] # 0
<1> DEFINE Why == (completed[u] /\ pc[u] # "done") \/ CmdComplete(u) \/ rcode'[u] # 0
<1> SUFFICES Why
  OBVIOUS
<1>a. completed'[u] /\ pc'[u] # "done"
  OBVIOUS
<1>b. CallTypeOK /\ WaitTypeOK
  BY DEF SafetyInv, TypeOK
<1> HIDE DEF Why
<1> USE DEF callVars, waitVars, CallTypeOK, WaitTypeOK
<1>1. ASSUME NEW t \in Threads, Refuse(t) PROVE Why
  BY <1>a, <1>b, <1>1 DEF Refuse, Why
<1>2. ASSUME NEW t \in Threads, Call(t) PROVE Why
  BY <1>a, <1>b, <1>2 DEF Call, Why
<1>3. ASSUME NEW t \in Threads, GiveUp(t) PROVE Why
  BY <1>a, <1>b, <1>3 DEF GiveUp, Why
<1>4. ASSUME NEW t \in Threads, Killed(t) PROVE Why
  BY <1>a, <1>b, <1>4 DEF Killed, Why
<1>5. ASSUME NEW t \in Threads, Expire(t) PROVE Why
  BY <1>a, <1>b, <1>5 DEF Expire, Why
<1>6. ASSUME NEW t \in Threads, Acquire(t) PROVE Why
  BY <1>a, <1>b, <1>6 DEF Acquire, Why
<1>7. ASSUME NEW t \in Threads, GetCid(t) PROVE Why
  BY <1>a, <1>b, <1>7 DEF GetCid, Why
<1>8. ASSUME NEW t \in Threads, Lock(t) PROVE Why
  BY <1>a, <1>b, <1>8 DEF Lock, Why
<1>9. ASSUME NEW t \in Threads, Write(t) PROVE Why
  BY <1>a, <1>b, <1>9 DEF Write, Why
<1>10. ASSUME NEW t \in Threads, WriteFails(t) PROVE Why
  BY <1>a, <1>b, <1>10 DEF WriteFails, Why
<1>11. ASSUME NEW t \in Threads, Add(t) PROVE Why
  BY <1>a, <1>b, <1>11 DEF Add, Why
<1>12. ASSUME NEW t \in Threads, Wake(t) PROVE Why
  BY <1>a, <1>b, <1>12 DEF Wake, Why
<1>13. ASSUME NEW t \in Threads, CheckTimedOut(t) PROVE Why
  BY <1>a, <1>b, <1>13 DEF CheckTimedOut, Why
<1>14. ASSUME NEW t \in Threads, CheckRcode(t) PROVE Why
  BY <1>a, <1>b, <1>14 DEF CheckRcode, Why
<1>15. ASSUME NEW t \in Threads, Abort(t) PROVE Why
  BY <1>a, <1>b, <1>15 DEF Abort, Why
<1>16. ASSUME NEW t \in Threads, GetResponse(t) PROVE Why
  BY <1>a, <1>b, <1>16 DEF GetResponse, Why
<1>17. ASSUME NEW t \in Threads, Done(t) PROVE Why
  BY <1>a, <1>b, <1>17 DEF Done, Why
<1>18. ASSUME NEW t \in Threads, CmdComplete(t) PROVE Why
  BY <1>a, <1>b, <1>18 DEF CmdComplete, Why
<1>19. ASSUME NEW t \in Threads, ScanOne(t) PROVE Why
  BY <1>a, <1>b, <1>19 DEF ScanOne, ETIME, Why
<1>20. CASE Stop \/ ReadResponse \/ Unexpected \/ StartCheck \/ FlagTimeout \/ EndCheck
  BY <1>a, <1>b, <1>20 DEF Stop, ReadResponse, Unexpected, StartCheck, FlagTimeout, EndCheck, Why
<1>21. CASE Amc
  BY <1>a, <1>b, <1>21 DEF Amc, AmcTake, AmcAnswer, Why
<1> HIDE DEF callVars, waitVars, CallTypeOK, WaitTypeOK
<1>. QED
  BY <1>1, <1>2, <1>3, <1>4, <1>5, <1>6, <1>7, <1>8, <1>9, <1>10, <1>11, <1>12, <1>13,
     <1>14, <1>15, <1>16, <1>17, <1>18, <1>19, <1>20, <1>21
  DEF Next, Step, ResponseThread

\* Only the AMC adds responses.
LEMMA AnswersMove ==
  ASSUME TypeOK, Next, NEW r \in (cq \cup ({rResp} \ {NoCall}))'
  PROVE  r \in cq \cup ({rResp} \ {NoCall}) \/ (r \in busy /\ AmcAnswer(r))
<1> DEFINE Came == r \in cq \cup ({rResp} \ {NoCall}) \/ (r \in busy /\ AmcAnswer(r))
<1> SUFFICES Came
  OBVIOUS
<1> HIDE DEF Came
<1> USE DEF respVars, queueVars
<1>1. ASSUME NEW t \in Threads, CmdComplete(t) PROVE Came
  BY <1>1 DEF CmdComplete, Came
<1>2. ASSUME NEW t \in Threads, Refuse(t) \/ Call(t) \/ GiveUp(t) \/ Killed(t) \/
            Expire(t) \/ Acquire(t) \/ GetCid(t) \/ Lock(t) \/ Write(t) \/
            WriteFails(t) \/ Add(t) \/ Wake(t) \/ CheckTimedOut(t) \/
            CheckRcode(t) \/ Abort(t) \/ GetResponse(t) \/ Done(t) \/ ScanOne(t)
      PROVE Came
  BY <1>2 DEF Refuse, Call, GiveUp, Killed, Expire, Acquire, GetCid, Lock, Write,
     WriteFails, Add, Wake, CheckTimedOut, CheckRcode, Abort, GetResponse, Done,
     ScanOne, Came
<1>3. CASE Stop \/ ReadResponse \/ Unexpected \/ StartCheck \/ FlagTimeout \/ EndCheck
  BY <1>3 DEF Stop, ReadResponse, Unexpected, StartCheck, FlagTimeout, EndCheck, Came
<1>4. CASE Amc
  BY <1>4 DEF Amc, AmcTake, AmcAnswer, Came
<1> HIDE DEF respVars, queueVars
<1>. QED
  BY <1>1, <1>2, <1>3, <1>4
  DEF Next, Step, ResponseThread

LEMMA PageStep ==
  ASSUME PageBase, Next
  PROVE  PageInv'
<1>0. TypeOK /\ SafetyInv /\ OwnInv /\ PlacesInv /\ WaitedInv
  BY DEF PageBase, SafetyInv
<1>1. ASSUME NEW t \in Threads, Kind[t] # "plain", pc'[t] \notin {"idle", "acquire", "done"}
      PROVE  sema'[Kind[t]] = t
  BY <1>0, <1>1, SemaStep DEF PageBase
<1>2. ASSUME NEW t \in Threads, Kind[t] # "plain", pc'[t] # "done", completed'[t]
      PROVE  page'[Kind[t]] = ThisCall(t)'
  <2>1. CASE completed[t] /\ pc[t] # "done"
    <3>1. pc[t] \notin Fresh
      BY <1>0, <2>1 DEF SafetyInv, WakeInv
    <3>2. sema[Kind[t]] = t /\ page[Kind[t]] = ThisCall(t) /\ pc[t] # "idle"
      BY <1>2, <2>1, <3>1 DEF PageBase, PageInv, Fresh
    <3> QED BY <1>2, <3>2, PageKept
  <2>2. CASE CmdComplete(t)
    <3>1. rResp = <<cid[t], ThisCall(t)>> /\ rResp # NoCall /\ pc[t] \in Waiting
      BY <1>0, <2>2, CompletedByOwn
    <3>2. rResp[2][1] = t
      BY <3>1 DEF ThisCall
    <3>3. page[Kind[t]] = ThisCall(t)
      BY <1>2, <3>1, <3>2 DEF PageBase, PageInv
    <3>4. sema[Kind[t]] = t /\ pc[t] # "idle"
      BY <1>2, <3>1 DEF PageBase, PageInv, Waiting
    <3> QED BY <1>2, <3>3, <3>4, PageKept
  <2>3. rcode'[t] = 0
    BY <1>0, <1>2, NotTimedOut DEF PageBase, PagesWaited
  <2> QED BY <1>0, <1>2, <2>1, <2>2, <2>3, CompletedStep
<1>3. ASSUME NEW r \in (cq \cup ({rResp} \ {NoCall}))', NEW t \in Threads,
             r[2][1] = t, Kind[t] # "plain"
      PROVE  page'[Kind[t]] = ThisCall(t)'
  <2>1. r \in Outstanding
    BY <1>0, <1>3, AnswersMove DEF Outstanding
  <2>2. r[2] = ThisCall(t) /\ pc[t] \in {"add", "wait"} /\ sema[Kind[t]] = t
    BY <1>3, <2>1, Holder
  <2>3. CASE r \in cq \cup ({rResp} \ {NoCall})
    <3>1. page[Kind[t]] = ThisCall(t)
      BY <1>3, <2>3 DEF PageBase, PageInv
    <3> QED BY <1>3, <2>2, <3>1, PageKept
  <2>4. CASE r \in busy /\ AmcAnswer(r)
    <3>1. page'[Kind[t]] = r[2] /\ calls' = calls
      BY <1>3, <2>4, CommandAssumption DEF AmcAnswer, callVars, Pages
    <3> QED BY <2>2, <3>1 DEF ThisCall
  <2> QED BY <1>0, <1>3, <2>3, <2>4, AnswersMove
<1> QED BY <1>1, <1>2, <1>3 DEF PageInv

LEMMA MoreStutters ==
  ASSUME UNCHANGED vars
  PROVE  (WaitedInv => WaitedInv') /\ (HeldInv => HeldInv') /\ (PageInv => PageInv')
<1> USE DEF vars, callVars, waitVars, cidVars, respVars, queueVars, Outstanding, HasCid, ThisCall
<1>1. WaitedInv => WaitedInv'
  BY DEF WaitedInv
<1>2. HeldInv => HeldInv'
  BY DEF HeldInv
<1>3. PageInv => PageInv'
  BY DEF PageInv
<1> QED BY <1>1, <1>2, <1>3

LEMMA MoreBegins == Init => WaitedInv /\ HeldInv /\ PageInv
<1> SUFFICES ASSUME Init PROVE WaitedInv /\ HeldInv /\ PageInv
  OBVIOUS
<1>1. Outstanding = {} /\ cq \cup ({rResp} \ {NoCall}) = {}
  BY DEF Init, Outstanding
<1>2. WaitedInv
  BY <1>1, CommandAssumption DEF Init, WaitedInv, Waited
<1>3. HeldInv
  BY DEF Init, HeldInv, HasCid
<1>4. PageInv
  BY <1>1 DEF Init, PageInv
<1> QED BY <1>2, <1>3, <1>4


LEMMA PageAtEnd ==
  ASSUME PageBase
  PROVE  PageIsOwn
<1>1. \A t \in Threads : pc[t] = "response" => completed[t]
  BY DEF PageBase, SafetyInv, WakeInv
<1> QED BY <1>1 DEF PageBase, PageInv, PageIsOwn

\* As long as the ids have not come round, and nobody who uses a page is killed
\* or times out, a successful call copies from the shared page what the AMC
\* wrote for it.
THEOREM PagesUntilRound ==
  ASSUME FewCalls, PagesWaited
  PROVE  Spec => []PageIsOwn
<1> DEFINE Inv == BaseInv /\ OwnInv /\ RoundInv
<1>1. Init => WaitedInv /\ PageInv
  BY MoreBegins
<1>2. Inv /\ WaitedInv /\ PageInv /\ [Next]_vars => WaitedInv' /\ PageInv'
  <2>1. ASSUME Inv, WaitedInv, PageInv, Next PROVE WaitedInv' /\ PageInv'
    BY <2>1, WaitedStep, PageStep DEF BaseInv, PageBase
  <2> QED BY <2>1, MoreStutters
<1>3. Inv /\ WaitedInv /\ PageInv => PageIsOwn
  BY PageAtEnd DEF BaseInv, PageBase
<1>4. Spec => []Inv
  BY RoundCorrect
<1> HIDE DEF Inv
<1> QED BY <1>1, <1>2, <1>3, <1>4, PTL DEF Spec

\* If no call gives up early, and there is an id for each thread, the ids may come
\* round for ever: no two commands in flight share one, each successful call
\* has its own response and copies its own data.
THEOREM OwnForEver ==
  ASSUME NoneGivesUp
  PROVE  Spec => [](CidUnique /\ OwnResponse /\ PageIsOwn)
<1> DEFINE Inv == BaseInv /\ OwnInv /\ WaitedInv /\ HeldInv /\ PageInv
<1>0. PagesWaited
  BY DEF PagesWaited, Waited, NoneGivesUp
<1>1. Init => Inv
  BY OwnBegins, MoreBegins DEF BaseInv
<1>2. Inv /\ [Next]_vars => Inv'
  <2>1. ASSUME Inv, Next PROVE OwnInv' /\ WaitedInv' /\ HeldInv' /\ PageInv'
    <3>1. /\ TypeOK /\ ReturnInv /\ CidsHeld /\ SafetyInv /\ LeakInv /\ PlacesInv
      BY <2>1 DEF BaseInv, SafetyInv, LeakInv, NothingLeaks
    <3>2. FreshIds
      BY <2>1, <3>1, HeldFresh
    <3>3. OwnInv' /\ WaitedInv' /\ HeldInv'
      BY <2>1, <3>1, <3>2, OwnStep, WaitedStep, HeldStep
    <3>4. PageInv'
      BY <1>0, <2>1, <3>1, PageStep DEF PageBase
    <3> QED BY <3>3, <3>4
  <2> QED BY <2>1, BaseStep, OwnStutters, MoreStutters
<1>3. Inv => CidUnique /\ OwnResponse /\ PageIsOwn
  BY <1>0, PageAtEnd DEF BaseInv, PageBase, OwnInv
<1> HIDE DEF Inv
<1> QED BY <1>1, <1>2, <1>3, PTL DEF Spec
=============================================================================
