--------------------------- MODULE AmiDeviceProofs ---------------------------
(***************************************************************************)
(* TypeCorrect, DeviceMemorySafe, HaltsOnlyTheDead and TornDownWhole, for  *)
(* any users and any limit of missed heartbeats, from the inductive        *)
(* invariant DeviceInv: one lemma per action, in it one step per part that *)
(* the action can disturb.                                                 *)
(***************************************************************************)
EXTENDS AmiDeviceProps, FiniteSetTheorems, TLAPS

USE DEF pfVars, appVars, amcVars, hbVars, userVars, hbFrame, coreFrame,
        probeFrame, unchangedPf, removeFrame, waitFrame, outerFrame

\* There are finitely many users inside: their number counts.
LEMMA HoldersFinite ==
  /\ IsFiniteSet(Holders)
  /\ Cardinality(Holders) \in Nat
  /\ Cardinality(Holders) = 0 <=> Holders = {}
<1>1. Holders \in SUBSET Users
  BY DEF Holders
<1> QED BY <1>1, DeviceAssumption, FS_Subset, FS_CardinalityType, FS_EmptySet

-----------------------------------------------------------------------------
\* kzalloc of pf_dev: the probe takes its own reference.
LEMMA CreateKeeps ==
  ASSUME TypeOK, DeviceInv, Create
  PROVE  (TypeOK /\ DeviceInv)'
<1>1. Holders' = Holders
  BY DEF Create, Holders
<1>2. TypeOK'
  <2>1. core' \in CoreStates
    BY DEF TypeOK, Create, CoreStates
  <2>2. data' \in {"none", "live", "freed"}
    BY DEF TypeOK, Create
  <2>3. refs' \in Nat
    BY HoldersFinite DEF TypeOK, Create, DeviceInv, DataInv, OwnReference,
       CallerInv, Unsetting
  <2> QED BY <2>1, <2>2, <2>3 DEF TypeOK, Create
<1>3. CallerInv'
  BY DEF TypeOK, DeviceInv, CallerInv, Unsetting, Create
<1>4. DataInv'
  BY <1>1, HoldersFinite DEF TypeOK, DeviceInv, DataInv, OwnReference,
     CallerInv, Unsetting, Create
<1>5. DoorInv'
  BY DEF TypeOK, DeviceInv, DoorInv, Settled, Unsetting, Create
<1>6. ContextInv'
  BY DEF TypeOK, DeviceInv, ContextInv, Settled, Unsetting, Create
<1>7. EntryInv'
  BY DEF TypeOK, DeviceInv, EntryInv, Settled, Attached, Create
<1>8. ThreadInv'
  BY DEF TypeOK, DeviceInv, ThreadInv, Settled, Unsetting, Attached, Create
<1>9. CommandInv'
  BY DeviceAssumption DEF TypeOK, DeviceInv, CommandInv, Settled, Create
<1> QED BY <1>1, <1>2, <1>3, <1>4, <1>5, <1>6, <1>7, <1>8, <1>9 DEF DeviceInv

\* The context appears; where its mapping fails, unset_amc takes it down again.
LEMMA MapEndpointsKeeps ==
  ASSUME TypeOK, DeviceInv, MapEndpoints
  PROVE  (TypeOK /\ DeviceInv)'
<1>1. Holders' = Holders
  BY DEF MapEndpoints, Holders
<1>2. TypeOK'
  <2>1. core' \in CoreStates
    BY DEF TypeOK, MapEndpoints, Unset, CoreStates
  <2>2. caller' \in {"none", "setup", "unwind", "remove"}
    BY DEF TypeOK, MapEndpoints, Unset
  <2>3. ctxt' \in {"none", "live"}
    BY DEF TypeOK, MapEndpoints, Unset
  <2>4. halted' \in BOOLEAN
    BY DEF TypeOK, MapEndpoints, Unset
  <2> QED BY <2>1, <2>2, <2>3, <2>4 DEF TypeOK, MapEndpoints
<1>3. CallerInv'
  BY DEF TypeOK, DeviceInv, CallerInv, Unsetting, MapEndpoints, Unset
<1>4. DataInv'
  BY <1>1 DEF TypeOK, DeviceInv, DataInv, OwnReference, CallerInv, Unsetting,
     MapEndpoints, Unset
<1>5. DoorInv'
  BY DEF TypeOK, DeviceInv, DoorInv, Settled, Unsetting, MapEndpoints, Unset
<1>6. ContextInv'
  BY DEF TypeOK, DeviceInv, ContextInv, Settled, Unsetting, MapEndpoints,
     Unset
<1>7. EntryInv'
  BY DEF TypeOK, DeviceInv, EntryInv, Settled, Attached, ContextInv,
     Unsetting, CallerInv, MapEndpoints, Unset
<1>8. ThreadInv'
  BY DEF TypeOK, DeviceInv, ThreadInv, Settled, Unsetting, Attached,
     MapEndpoints, Unset
<1>9. CommandInv'
  BY DeviceAssumption DEF TypeOK, DeviceInv, CommandInv, Settled,
     MapEndpoints, Unset
<1> QED BY <1>1, <1>2, <1>3, <1>4, <1>5, <1>6, <1>7, <1>8, <1>9 DEF DeviceInv

\* The instance is listed together with its thread, or neither is there.
LEMMA ProxyInitKeeps ==
  ASSUME TypeOK, DeviceInv, ProxyInit
  PROVE  (TypeOK /\ DeviceInv)'
<1>1. Holders' = Holders
  BY DEF ProxyInit, Holders
<1>2. TypeOK'
  <2>1. core' \in CoreStates
    BY DEF TypeOK, ProxyInit, Unset, RspWoken, CoreStates
  <2>2. caller' \in {"none", "setup", "unwind", "remove"}
    BY DEF TypeOK, ProxyInit, Unset, RspWoken
  <2>3. entry' \in {"none", "listed", "leaked", "freed"}
    BY DEF TypeOK, ProxyInit, Unset, RspWoken
  <2>4. thread' \in [Threads -> ThreadStates]
    BY DEF TypeOK, ProxyInit, Unset, RspWoken, Threads, ThreadStates
  <2> QED BY <2>1, <2>2, <2>3, <2>4 DEF TypeOK, ProxyInit, ThreadStates
<1>3. CallerInv'
  BY DEF TypeOK, DeviceInv, CallerInv, Unsetting, ProxyInit, Unset, RspWoken
<1>4. DataInv'
  BY <1>1 DEF TypeOK, DeviceInv, DataInv, OwnReference, CallerInv, Unsetting,
     ProxyInit, Unset, RspWoken
<1>5. DoorInv'
  BY DEF TypeOK, DeviceInv, DoorInv, Settled, Unsetting, ProxyInit, Unset,
     RspWoken
<1>6. ContextInv'
  BY DEF TypeOK, DeviceInv, ContextInv, Settled, Unsetting, ProxyInit, Unset,
     RspWoken
<1>7. EntryInv'
  BY DEF TypeOK, DeviceInv, EntryInv, Settled, Attached, ContextInv,
     Unsetting, CallerInv, ProxyInit, Unset, RspWoken, Threads
<1>8. ThreadInv'
  BY DEF TypeOK, DeviceInv, ThreadInv, Settled, Unsetting, Attached, EntryInv,
     ContextInv, ProxyInit, Unset, RspWoken, Threads
<1>9. CommandInv'
  BY DeviceAssumption DEF TypeOK, DeviceInv, CommandInv, Settled, CallerInv,
     Unsetting, DataInv, OwnReference, ContextInv, ThreadInv, Attached,
     ProxyInit, Unset, RspWoken, Threads
<1> QED BY <1>1, <1>2, <1>3, <1>4, <1>5, <1>6, <1>7, <1>8, <1>9 DEF DeviceInv

\* The logging thread, and the first command of the probe.
LEMMA CreateLogKeeps ==
  ASSUME TypeOK, DeviceInv, CreateLog
  PROVE  (TypeOK /\ DeviceInv)'
<1>1. Holders' = Holders
  BY DEF CreateLog, Holders
<1>2. TypeOK'
  <2>1. core' \in CoreStates
    BY DEF TypeOK, CreateLog, Unset, Submit, Checked, CoreStates
  <2>2. caller' \in {"none", "setup", "unwind", "remove"}
    BY DEF TypeOK, CreateLog, Unset, Submit, Checked
  <2>3. created' \subseteq {"hb", "log"}
    BY DEF TypeOK, CreateLog, Unset, Submit, Checked
  <2>4. thread' \in [Threads -> ThreadStates]
    BY DEF TypeOK, CreateLog, Unset, Submit, Checked, Threads, ThreadStates
  <2>5. cmd' \in [Submitters -> CommandStates]
    BY DEF TypeOK, CreateLog, Unset, Submit, Checked, CommandStates,
       Submitters
  <2> QED BY <2>1, <2>2, <2>3, <2>4, <2>5 DEF TypeOK, CreateLog, ThreadStates,
     CommandStates
<1>3. CallerInv'
  BY DEF TypeOK, DeviceInv, CallerInv, Unsetting, CreateLog, Unset, Submit,
     Checked
<1>4. DataInv'
  BY <1>1 DEF TypeOK, DeviceInv, DataInv, OwnReference, CallerInv, Unsetting,
     CreateLog, Unset, Submit, Checked
<1>5. DoorInv'
  BY DEF TypeOK, DeviceInv, DoorInv, Settled, Unsetting, CreateLog, Unset,
     Submit, Checked
<1>6. ContextInv'
  BY DEF TypeOK, DeviceInv, ContextInv, Settled, Unsetting, CreateLog, Unset,
     Submit, Checked
<1>7. EntryInv'
  BY DEF TypeOK, DeviceInv, EntryInv, Settled, Attached, ContextInv,
     Unsetting, CallerInv, CreateLog, Unset, Submit, Checked, Threads
<1>8. ThreadInv'
  BY DEF TypeOK, DeviceInv, ThreadInv, Settled, Unsetting, Attached, EntryInv,
     ContextInv, CreateLog, Unset, Submit, Checked, Threads
<1>9. CommandInv'
  BY DeviceAssumption DEF TypeOK, DeviceInv, CommandInv, Settled, CallerInv,
     Unsetting, DataInv, OwnReference, ContextInv, ThreadInv, Attached,
     CreateLog, Unset, Submit, Checked, Threads, Submitters
<1> QED BY <1>1, <1>2, <1>3, <1>4, <1>5, <1>6, <1>7, <1>8, <1>9 DEF DeviceInv

\* The answer to the version command decides whether there is a heartbeat.
LEMMA VersionKeeps ==
  ASSUME TypeOK, DeviceInv, Version
  PROVE  (TypeOK /\ DeviceInv)'
<1>1. Holders' = Holders
  BY DEF Version, Holders
<1>2. TypeOK'
  <2>1. core' \in CoreStates
    BY DEF TypeOK, Version, Unset, Over, Forget, CoreStates
  <2>2. caller' \in {"none", "setup", "unwind", "remove"}
    BY DEF TypeOK, Version, Unset, Over, Forget
  <2>3. created' \subseteq {"hb", "log"}
    BY DEF TypeOK, Version, Unset, Over, Forget
  <2>4. thread' \in [Threads -> ThreadStates]
    BY DEF TypeOK, Version, Unset, Over, Forget, Threads, ThreadStates
  <2>5. cmd' \in [Submitters -> CommandStates]
    BY DEF TypeOK, Version, Unset, Over, Forget, CommandStates, Submitters
  <2> QED BY <2>1, <2>2, <2>3, <2>4, <2>5 DEF TypeOK, Version, ThreadStates,
     CommandStates
<1>3. CallerInv'
  BY DEF TypeOK, DeviceInv, CallerInv, Unsetting, Version, Unset, Over, Forget
<1>4. DataInv'
  BY <1>1 DEF TypeOK, DeviceInv, DataInv, OwnReference, CallerInv, Unsetting,
     Version, Unset, Over, Forget
<1>5. DoorInv'
  BY DEF TypeOK, DeviceInv, DoorInv, Settled, Unsetting, Version, Unset, Over,
     Forget
<1>6. ContextInv'
  BY DEF TypeOK, DeviceInv, ContextInv, Settled, Unsetting, Version, Unset,
     Over, Forget
<1>7. EntryInv'
  BY DEF TypeOK, DeviceInv, EntryInv, Settled, Attached, ContextInv,
     Unsetting, CallerInv, Version, Unset, Over, Forget, Threads
<1>8. ThreadInv'
  BY DEF TypeOK, DeviceInv, ThreadInv, Settled, Unsetting, Attached, EntryInv,
     ContextInv, Version, Unset, Over, Forget, Threads
<1>9. CommandInv'
  BY DeviceAssumption DEF TypeOK, DeviceInv, CommandInv, Settled, CallerInv,
     Unsetting, DataInv, OwnReference, ContextInv, ThreadInv, Attached,
     Version, Unset, Over, Forget, Threads, Submitters
<1> QED BY <1>1, <1>2, <1>3, <1>4, <1>5, <1>6, <1>7, <1>8, <1>9 DEF DeviceInv

\* Compatibility mode reaps the logging thread and forgets that it was created.
LEMMA CompatStopKeeps ==
  ASSUME TypeOK, DeviceInv, CompatStop
  PROVE  (TypeOK /\ DeviceInv)'
<1>1. Holders' = Holders
  BY DEF CompatStop, Holders
<1>2. TypeOK'
  <2>1. core' \in CoreStates
    BY DEF TypeOK, CompatStop, CreatedWithoutLog, CoreStates
  <2>2. created' \subseteq {"hb", "log"}
    BY DEF TypeOK, CompatStop, CreatedWithoutLog
  <2>3. thread' \in [Threads -> ThreadStates]
    BY DEF TypeOK, CompatStop, CreatedWithoutLog, Threads, ThreadStates
  <2>4. state' \in DeviceStates
    BY DEF TypeOK, CompatStop, CreatedWithoutLog, DeviceStates
  <2> QED BY <2>1, <2>2, <2>3, <2>4 DEF TypeOK, CompatStop, ThreadStates,
     DeviceStates
<1>3. CallerInv'
  BY DEF TypeOK, DeviceInv, CallerInv, Unsetting, CompatStop,
     CreatedWithoutLog
<1>4. DataInv'
  BY <1>1 DEF TypeOK, DeviceInv, DataInv, OwnReference, CompatStop,
     CreatedWithoutLog
<1>5. DoorInv'
  BY DEF TypeOK, DeviceInv, DoorInv, Settled, Unsetting, CompatStop,
     CreatedWithoutLog
<1>6. ContextInv'
  BY DEF TypeOK, DeviceInv, ContextInv, Settled, Unsetting, CompatStop,
     CreatedWithoutLog
<1>7. EntryInv'
  BY DEF TypeOK, DeviceInv, EntryInv, Settled, Attached, CompatStop,
     CreatedWithoutLog, Threads
<1>8. ThreadInv'
  BY DEF TypeOK, DeviceInv, ThreadInv, Settled, Unsetting, Attached, EntryInv,
     ContextInv, CompatStop, CreatedWithoutLog, Threads
<1>9. CommandInv'
  BY DeviceAssumption DEF TypeOK, DeviceInv, CommandInv, Settled, CallerInv,
     Unsetting, DataInv, OwnReference, ContextInv, ThreadInv, Attached,
     CompatStop, CreatedWithoutLog, Threads
<1> QED BY <1>1, <1>2, <1>3, <1>4, <1>5, <1>6, <1>7, <1>8, <1>9 DEF DeviceInv

\* The second command of the probe, or none.
LEMMA DiscoverKeeps ==
  ASSUME TypeOK, DeviceInv, Discover
  PROVE  (TypeOK /\ DeviceInv)'
<1>1. Holders' = Holders
  BY DEF Discover, Holders
<1>2. TypeOK'
  <2>1. core' \in CoreStates
    BY DEF TypeOK, Discover, Submit, Checked, CoreStates
  <2>2. cmd' \in [Submitters -> CommandStates]
    BY DEF TypeOK, Discover, Submit, Checked, CommandStates, Submitters
  <2> QED BY <2>1, <2>2 DEF TypeOK, Discover, CommandStates
<1>3. CallerInv'
  BY DEF TypeOK, DeviceInv, CallerInv, Unsetting, Discover, Submit, Checked
<1>4. DataInv'
  BY <1>1 DEF TypeOK, DeviceInv, DataInv, OwnReference, Discover, Submit,
     Checked
<1>5. DoorInv'
  BY DEF TypeOK, DeviceInv, DoorInv, Settled, Unsetting, Discover, Submit,
     Checked
<1>6. ContextInv'
  BY DEF TypeOK, DeviceInv, ContextInv, Settled, Unsetting, Discover, Submit,
     Checked
<1>7. EntryInv'
  BY DEF TypeOK, DeviceInv, EntryInv, Settled, Attached, Discover, Submit,
     Checked
<1>8. ThreadInv'
  BY DEF TypeOK, DeviceInv, ThreadInv, Settled, Unsetting, Attached, Discover,
     Submit, Checked
<1>9. CommandInv'
  BY DeviceAssumption DEF TypeOK, DeviceInv, CommandInv, Settled, CallerInv,
     Unsetting, DataInv, OwnReference, ContextInv, ThreadInv, Attached,
     Discover, Submit, Checked, Submitters
<1> QED BY <1>1, <1>2, <1>3, <1>4, <1>5, <1>6, <1>7, <1>8, <1>9 DEF DeviceInv

\* The sensors are known: hwmon opens, or the probe unwinds; or it goes on
\* without.
LEMMA DiscoveredKeeps ==
  ASSUME TypeOK, DeviceInv, Discovered
  PROVE  (TypeOK /\ DeviceInv)'
<1>1. Holders' = Holders
  BY DEF Discovered, Holders
<1>2. TypeOK'
  <2>1. core' \in CoreStates
    BY DEF TypeOK, Discovered, Unwind, Unset, Over, Forget, CoreStates
  <2>2. caller' \in {"none", "setup", "unwind", "remove"}
    BY DEF TypeOK, Discovered, Unwind, Unset, Over, Forget
  <2>3. doors' \subseteq Doors
    BY DEF TypeOK, Discovered, Unwind, Unset, Over, Forget, Doors
  <2>4. state' \in DeviceStates
    BY DEF TypeOK, Discovered, Unwind, Unset, Over, Forget, DeviceStates
  <2>5. cmd' \in [Submitters -> CommandStates]
    BY DEF TypeOK, Discovered, Unwind, Unset, Over, Forget, CommandStates,
       Submitters
  <2> QED BY <2>1, <2>2, <2>3, <2>4, <2>5 DEF TypeOK, Discovered,
     DeviceStates, CommandStates
<1>3. CallerInv'
  BY DEF TypeOK, DeviceInv, CallerInv, Unsetting, Discovered, Unwind, Unset,
     Over, Forget
<1>4. DataInv'
  BY <1>1 DEF TypeOK, DeviceInv, DataInv, OwnReference, CallerInv, Unsetting,
     Discovered, Unwind, Unset, Over, Forget
<1>5. DoorInv'
  BY DEF TypeOK, DeviceInv, DoorInv, Settled, Unsetting, CallerInv, DataInv,
     OwnReference, ContextInv, EntryInv, Attached, ThreadInv,
     CommandInv, Discovered, Unwind, Unset, Over, Forget, Doors
<1>6. ContextInv'
  BY DEF TypeOK, DeviceInv, ContextInv, Settled, Unsetting, Discovered,
     Unwind, Unset, Over, Forget
<1>7. EntryInv'
  BY DEF TypeOK, DeviceInv, EntryInv, Settled, Attached, Discovered, Unwind,
     Unset, Over, Forget
<1>8. ThreadInv'
  BY DEF TypeOK, DeviceInv, ThreadInv, Settled, Unsetting, Attached, EntryInv,
     ContextInv, Discovered, Unwind, Unset, Over, Forget
<1>9. CommandInv'
  BY DeviceAssumption DEF TypeOK, DeviceInv, CommandInv, Settled, CallerInv,
     Unsetting, DataInv, OwnReference, ContextInv, ThreadInv, Attached,
     Discovered, Unwind, Unset, Over, Forget, Submitters
<1> QED BY <1>1, <1>2, <1>3, <1>4, <1>5, <1>6, <1>7, <1>8, <1>9 DEF DeviceInv

\* sysfs opens, or the probe unwinds.
LEMMA RegisterSysfsKeeps ==
  ASSUME TypeOK, DeviceInv, RegisterSysfs
  PROVE  (TypeOK /\ DeviceInv)'
<1>1. Holders' = Holders
  BY DEF RegisterSysfs, Holders
<1>2. TypeOK'
  <2>1. core' \in CoreStates
    BY DEF TypeOK, RegisterSysfs, Unwind, Unset, CoreStates
  <2>2. caller' \in {"none", "setup", "unwind", "remove"}
    BY DEF TypeOK, RegisterSysfs, Unwind, Unset
  <2>3. doors' \subseteq Doors
    BY DEF TypeOK, RegisterSysfs, Unwind, Unset, Doors
  <2> QED BY <2>1, <2>2, <2>3 DEF TypeOK, RegisterSysfs
<1>3. CallerInv'
  BY DEF TypeOK, DeviceInv, CallerInv, Unsetting, RegisterSysfs, Unwind, Unset
<1>4. DataInv'
  BY <1>1 DEF TypeOK, DeviceInv, DataInv, OwnReference, CallerInv, Unsetting,
     RegisterSysfs, Unwind, Unset
<1>5. DoorInv'
  BY DEF TypeOK, DeviceInv, DoorInv, Settled, Unsetting, RegisterSysfs,
     Unwind, Unset, Doors
<1>6. ContextInv'
  BY DEF TypeOK, DeviceInv, ContextInv, Settled, Unsetting, RegisterSysfs,
     Unwind, Unset
<1>7. EntryInv'
  BY DEF TypeOK, DeviceInv, EntryInv, Settled, Attached, RegisterSysfs,
     Unwind, Unset
<1>8. ThreadInv'
  BY DEF TypeOK, DeviceInv, ThreadInv, Settled, Unsetting, Attached, EntryInv,
     ContextInv, RegisterSysfs, Unwind, Unset
<1>9. CommandInv'
  BY DeviceAssumption DEF TypeOK, DeviceInv, CommandInv, Settled,
     RegisterSysfs, Unwind, Unset
<1> QED BY <1>1, <1>2, <1>3, <1>4, <1>5, <1>6, <1>7, <1>8, <1>9 DEF DeviceInv

\* The character device opens, or the probe unwinds.
LEMMA CreateCdevKeeps ==
  ASSUME TypeOK, DeviceInv, CreateCdev
  PROVE  (TypeOK /\ DeviceInv)'
<1>1. Holders' = Holders
  BY DEF CreateCdev, Holders
<1>2. TypeOK'
  <2>1. core' \in CoreStates
    BY DEF TypeOK, CreateCdev, CoreStates
  <2>2. caller' \in {"none", "setup", "unwind", "remove"}
    BY DEF TypeOK, CreateCdev
  <2>3. doors' \subseteq Doors
    BY DEF TypeOK, CreateCdev, Doors
  <2> QED BY <2>1, <2>2, <2>3 DEF TypeOK, CreateCdev
<1>3. CallerInv'
  BY DEF TypeOK, DeviceInv, CallerInv, Unsetting, CreateCdev
<1>4. DataInv'
  BY <1>1 DEF TypeOK, DeviceInv, DataInv, OwnReference, CallerInv, Unsetting,
     CreateCdev
<1>5. DoorInv'
  BY DEF TypeOK, DeviceInv, DoorInv, Settled, Unsetting, CreateCdev, Doors
<1>6. ContextInv'
  BY DEF TypeOK, DeviceInv, ContextInv, Settled, Unsetting, CreateCdev
<1>7. EntryInv'
  BY DEF TypeOK, DeviceInv, EntryInv, Settled, Attached, CreateCdev
<1>8. ThreadInv'
  BY DEF TypeOK, DeviceInv, ThreadInv, Settled, Unsetting, Attached,
     CreateCdev
<1>9. CommandInv'
  BY DeviceAssumption DEF TypeOK, DeviceInv, CommandInv, Settled, CreateCdev
<1> QED BY <1>1, <1>2, <1>3, <1>4, <1>5, <1>6, <1>7, <1>8, <1>9 DEF DeviceInv

\* The look at the state; only a device with an AMC is still in INIT.
LEMMA CheckStateKeeps ==
  ASSUME TypeOK, DeviceInv, CheckState
  PROVE  (TypeOK /\ DeviceInv)'
<1>1. Holders' = Holders
  BY DEF CheckState, Holders
<1>2. TypeOK'
  <2>1. core' \in CoreStates
    BY DEF TypeOK, CheckState, CoreStates
  <2> QED BY <2>1 DEF TypeOK, CheckState
<1>3. CallerInv'
  BY DEF TypeOK, DeviceInv, CallerInv, Unsetting, CheckState
<1>4. DataInv'
  BY <1>1 DEF TypeOK, DeviceInv, DataInv, OwnReference, CheckState
<1>5. DoorInv'
  BY DEF TypeOK, DeviceInv, DoorInv, Settled, Unsetting, CheckState
<1>6. ContextInv'
  BY DEF TypeOK, DeviceInv, ContextInv, Settled, Unsetting, CheckState
<1>7. EntryInv'
  BY DEF TypeOK, DeviceInv, EntryInv, Settled, Attached, CheckState
<1>8. ThreadInv'
  BY DEF TypeOK, DeviceInv, ThreadInv, Settled, Unsetting, Attached,
     CheckState
<1>9. CommandInv'
  BY DeviceAssumption DEF TypeOK, DeviceInv, CommandInv, Settled, CheckState
<1> QED BY <1>1, <1>2, <1>3, <1>4, <1>5, <1>6, <1>7, <1>8, <1>9 DEF DeviceInv

\* The write of READY, whatever the heartbeat did since the look.
LEMMA SetReadyKeeps ==
  ASSUME TypeOK, DeviceInv, SetReady
  PROVE  (TypeOK /\ DeviceInv)'
<1>1. Holders' = Holders
  BY DEF SetReady, Holders
<1>2. TypeOK'
  <2>1. core' \in CoreStates
    BY DEF TypeOK, SetReady, CoreStates
  <2>2. state' \in DeviceStates
    BY DEF TypeOK, SetReady, DeviceStates
  <2> QED BY <2>1, <2>2 DEF TypeOK, SetReady, DeviceStates
<1>3. CallerInv'
  BY DEF TypeOK, DeviceInv, CallerInv, Unsetting, SetReady
<1>4. DataInv'
  BY <1>1 DEF TypeOK, DeviceInv, DataInv, OwnReference, SetReady
<1>5. DoorInv'
  BY DEF TypeOK, DeviceInv, DoorInv, Settled, Unsetting, SetReady
<1>6. ContextInv'
  BY DEF TypeOK, DeviceInv, ContextInv, Settled, Unsetting, SetReady
<1>7. EntryInv'
  BY DEF TypeOK, DeviceInv, EntryInv, Settled, Attached, SetReady
<1>8. ThreadInv'
  BY DEF TypeOK, DeviceInv, ThreadInv, Settled, Unsetting, Attached, SetReady
<1>9. CommandInv'
  BY DeviceAssumption DEF TypeOK, DeviceInv, CommandInv, Settled, SetReady
<1> QED BY <1>1, <1>2, <1>3, <1>4, <1>5, <1>6, <1>7, <1>8, <1>9 DEF DeviceInv

\* From here users get references.
LEMMA EnableKeeps ==
  ASSUME TypeOK, DeviceInv, Enable
  PROVE  (TypeOK /\ DeviceInv)'
<1>1. Holders' = Holders
  BY DEF Enable, Holders
<1>2. TypeOK'
  <2>1. core' \in CoreStates
    BY DEF TypeOK, Enable, CoreStates
  <2>2. enabled' \in BOOLEAN
    BY DEF TypeOK, Enable
  <2> QED BY <2>1, <2>2 DEF TypeOK, Enable
<1>3. CallerInv'
  BY DEF TypeOK, DeviceInv, CallerInv, Unsetting, Enable
<1>4. DataInv'
  BY <1>1 DEF TypeOK, DeviceInv, DataInv, OwnReference, Enable
<1>5. DoorInv'
  BY DEF TypeOK, DeviceInv, DoorInv, Settled, Unsetting, Enable
<1>6. ContextInv'
  BY DEF TypeOK, DeviceInv, ContextInv, Settled, Unsetting, Enable
<1>7. EntryInv'
  BY DEF TypeOK, DeviceInv, EntryInv, Settled, Attached, Enable
<1>8. ThreadInv'
  BY DEF TypeOK, DeviceInv, ThreadInv, Settled, Unsetting, Attached, Enable
<1>9. CommandInv'
  BY DeviceAssumption DEF TypeOK, DeviceInv, CommandInv, Settled, Enable
<1> QED BY <1>1, <1>2, <1>3, <1>4, <1>5, <1>6, <1>7, <1>8, <1>9 DEF DeviceInv

\* kthread_stop of the heartbeat: it is there if it was created.
LEMMA StopHbKeeps ==
  ASSUME TypeOK, DeviceInv, StopHb
  PROVE  (TypeOK /\ DeviceInv)'
<1>1. Holders' = Holders
  BY DEF StopHb, Stop, Holders
<1>2. TypeOK'
  <2>1. core' \in CoreStates
    BY DEF TypeOK, StopHb, Stop, CoreStates
  <2>2. thread' \in [Threads -> ThreadStates]
    BY DEF TypeOK, StopHb, Stop, Threads, ThreadStates
  <2> QED BY <2>1, <2>2 DEF TypeOK, StopHb, Stop, ThreadStates
<1>3. CallerInv'
  BY DEF TypeOK, DeviceInv, CallerInv, Unsetting, StopHb, Stop
<1>4. DataInv'
  BY <1>1 DEF TypeOK, DeviceInv, DataInv, OwnReference, StopHb, Stop
<1>5. DoorInv'
  BY DEF TypeOK, DeviceInv, DoorInv, Settled, Unsetting, StopHb, Stop
<1>6. ContextInv'
  BY DEF TypeOK, DeviceInv, ContextInv, Settled, Unsetting, StopHb, Stop
<1>7. EntryInv'
  BY DEF TypeOK, DeviceInv, EntryInv, Settled, Attached, ContextInv,
     Unsetting, CallerInv, StopHb, Stop, Threads
<1>8. ThreadInv'
  BY DEF TypeOK, DeviceInv, ThreadInv, Settled, Unsetting, Attached, EntryInv,
     ContextInv, StopHb, Stop, Threads
<1>9. CommandInv'
  BY DeviceAssumption DEF TypeOK, DeviceInv, CommandInv, Settled, StopHb,
     Stop, Threads
<1> QED BY <1>1, <1>2, <1>3, <1>4, <1>5, <1>6, <1>7, <1>8, <1>9 DEF DeviceInv

\* kthread_stop of the logging thread.
LEMMA StopLogKeeps ==
  ASSUME TypeOK, DeviceInv, StopLog
  PROVE  (TypeOK /\ DeviceInv)'
<1>1. Holders' = Holders
  BY DEF StopLog, Stop, Holders
<1>2. TypeOK'
  <2>1. core' \in CoreStates
    BY DEF TypeOK, StopLog, Stop, CoreStates
  <2>2. thread' \in [Threads -> ThreadStates]
    BY DEF TypeOK, StopLog, Stop, Threads, ThreadStates
  <2> QED BY <2>1, <2>2 DEF TypeOK, StopLog, Stop, ThreadStates
<1>3. CallerInv'
  BY DEF TypeOK, DeviceInv, CallerInv, Unsetting, StopLog, Stop
<1>4. DataInv'
  BY <1>1 DEF TypeOK, DeviceInv, DataInv, OwnReference, StopLog, Stop
<1>5. DoorInv'
  BY DEF TypeOK, DeviceInv, DoorInv, Settled, Unsetting, StopLog, Stop
<1>6. ContextInv'
  BY DEF TypeOK, DeviceInv, ContextInv, Settled, Unsetting, StopLog, Stop
<1>7. EntryInv'
  BY DEF TypeOK, DeviceInv, EntryInv, Settled, Attached, ContextInv,
     Unsetting, CallerInv, StopLog, Stop, Threads
<1>8. ThreadInv'
  BY DEF TypeOK, DeviceInv, ThreadInv, Settled, Unsetting, Attached, EntryInv,
     ContextInv, StopLog, Stop, Threads
<1>9. CommandInv'
  BY DeviceAssumption DEF TypeOK, DeviceInv, CommandInv, Settled, CallerInv,
     Unsetting, DataInv, OwnReference, ContextInv, ThreadInv, Attached,
     StopLog, Stop, Threads
<1> QED BY <1>1, <1>2, <1>3, <1>4, <1>5, <1>6, <1>7, <1>8, <1>9 DEF DeviceInv

\* gcq_halted, while the device is not in use.
LEMMA HaltKeeps ==
  ASSUME TypeOK, DeviceInv, Halt
  PROVE  (TypeOK /\ DeviceInv)'
<1>1. Holders' = Holders
  BY DEF Halt, Holders
<1>2. TypeOK'
  <2>1. core' \in CoreStates
    BY DEF TypeOK, Halt, CoreStates
  <2>2. halted' \in BOOLEAN
    BY DEF TypeOK, Halt
  <2> QED BY <2>1, <2>2 DEF TypeOK, Halt
<1>3. CallerInv'
  BY DEF TypeOK, DeviceInv, CallerInv, Unsetting, Halt
<1>4. DataInv'
  BY <1>1 DEF TypeOK, DeviceInv, DataInv, OwnReference, Halt
<1>5. DoorInv'
  BY DEF TypeOK, DeviceInv, DoorInv, Settled, Unsetting, Halt
<1>6. ContextInv'
  BY DEF TypeOK, DeviceInv, ContextInv, Settled, Unsetting, Halt
<1>7. EntryInv'
  BY DEF TypeOK, DeviceInv, EntryInv, Settled, Attached, Halt
<1>8. ThreadInv'
  BY DEF TypeOK, DeviceInv, ThreadInv, Settled, Unsetting, Attached, Halt
<1>9. CommandInv'
  BY DeviceAssumption DEF TypeOK, DeviceInv, CommandInv, Settled, Halt
<1> QED BY <1>1, <1>2, <1>3, <1>4, <1>5, <1>6, <1>7, <1>8, <1>9 DEF DeviceInv

\* The commands that are left time out; their submitters forget them.
LEMMA DrainKeeps ==
  ASSUME TypeOK, DeviceInv, Drain
  PROVE  (TypeOK /\ DeviceInv)'
<1>1. Holders' = Holders
  BY DEF Drain, Holders
<1>2. TypeOK'
  <2>1. core' \in CoreStates
    BY DEF TypeOK, Drain, OnList, CoreStates
  <2>2. cmd' \in [Submitters -> CommandStates]
    BY DEF TypeOK, Drain, OnList, CommandStates, Submitters
  <2> QED BY <2>1, <2>2 DEF TypeOK, Drain, CommandStates
<1>3. CallerInv'
  BY DEF TypeOK, DeviceInv, CallerInv, Unsetting, Drain, OnList
<1>4. DataInv'
  BY <1>1 DEF TypeOK, DeviceInv, DataInv, OwnReference, Drain, OnList
<1>5. DoorInv'
  BY DEF TypeOK, DeviceInv, DoorInv, Settled, Unsetting, Drain, OnList
<1>6. ContextInv'
  BY DEF TypeOK, DeviceInv, ContextInv, Settled, Unsetting, Drain, OnList
<1>7. EntryInv'
  BY DEF TypeOK, DeviceInv, EntryInv, Settled, Attached, Drain, OnList
<1>8. ThreadInv'
  BY DEF TypeOK, DeviceInv, ThreadInv, Settled, Unsetting, Attached, Drain,
     OnList
<1>9. CommandInv'
  BY DeviceAssumption DEF TypeOK, DeviceInv, CommandInv, Settled, CallerInv,
     Unsetting, DataInv, OwnReference, ContextInv, ThreadInv, Attached,
     Drain, OnList, Submitters
<1> QED BY <1>1, <1>2, <1>3, <1>4, <1>5, <1>6, <1>7, <1>8, <1>9 DEF DeviceInv

\* The end of amc_proxy_close: thread and instance go together.
LEMMA CloseEntryKeeps ==
  ASSUME TypeOK, DeviceInv, CloseEntry
  PROVE  (TypeOK /\ DeviceInv)'
<1>1. Holders' = Holders
  BY DEF CloseEntry, Holders
<1>2. TypeOK'
  <2>1. core' \in CoreStates
    BY DEF TypeOK, CloseEntry, CoreStates
  <2>2. thread' \in [Threads -> ThreadStates]
    BY DEF TypeOK, CloseEntry, Threads, ThreadStates
  <2>3. entry' \in {"none", "listed", "leaked", "freed"}
    BY DEF TypeOK, CloseEntry
  <2> QED BY <2>1, <2>2, <2>3 DEF TypeOK, CloseEntry, ThreadStates
<1>3. CallerInv'
  BY DEF TypeOK, DeviceInv, CallerInv, Unsetting, CloseEntry
<1>4. DataInv'
  BY <1>1 DEF TypeOK, DeviceInv, DataInv, OwnReference, CloseEntry
<1>5. DoorInv'
  BY DEF TypeOK, DeviceInv, DoorInv, Settled, Unsetting, CloseEntry
<1>6. ContextInv'
  BY DEF TypeOK, DeviceInv, ContextInv, Settled, Unsetting, CloseEntry
<1>7. EntryInv'
  BY DEF TypeOK, DeviceInv, EntryInv, Settled, Attached, ContextInv,
     Unsetting, CallerInv, CloseEntry, Threads
<1>8. ThreadInv'
  BY DEF TypeOK, DeviceInv, ThreadInv, Settled, Unsetting, Attached,
     CloseEntry, Threads
<1>9. CommandInv'
  BY DeviceAssumption DEF TypeOK, DeviceInv, CommandInv, Settled, CloseEntry,
     Threads
<1> QED BY <1>1, <1>2, <1>3, <1>4, <1>5, <1>6, <1>7, <1>8, <1>9 DEF DeviceInv

\* The context is freed: nobody uses it.
LEMMA ReleaseKeeps ==
  ASSUME TypeOK, DeviceInv, Release
  PROVE  (TypeOK /\ DeviceInv)'
<1>1. Holders' = Holders
  BY DEF Release, Holders
<1>2. TypeOK'
  <2>1. core' \in CoreStates
    BY DEF TypeOK, Release, CoreStates
  <2>2. ctxt' \in {"none", "live"}
    BY DEF TypeOK, Release
  <2>3. state' \in DeviceStates
    BY DEF TypeOK, Release, DeviceStates
  <2> QED BY <2>1, <2>2, <2>3 DEF TypeOK, Release, DeviceStates
<1>3. CallerInv'
  BY DEF TypeOK, DeviceInv, CallerInv, Unsetting, Release
<1>4. DataInv'
  BY <1>1 DEF TypeOK, DeviceInv, DataInv, OwnReference, Release
<1>5. DoorInv'
  BY DEF TypeOK, DeviceInv, DoorInv, Settled, Unsetting, Release
<1>6. ContextInv'
  BY DEF TypeOK, DeviceInv, ContextInv, Settled, Unsetting, Release
<1>7. EntryInv'
  BY DEF TypeOK, DeviceInv, EntryInv, Settled, Attached, Release
<1>8. ThreadInv'
  BY DEF TypeOK, DeviceInv, ThreadInv, Settled, Unsetting, Attached, Release
<1>9. CommandInv'
  BY DeviceAssumption
  DEF TypeOK, DeviceInv, CommandInv, Settled, Holders, CallerInv,
     Unsetting, DataInv, OwnReference, ContextInv, ThreadInv, Attached,
     Release
<1> QED BY <1>1, <1>2, <1>3, <1>4, <1>5, <1>6, <1>7, <1>8, <1>9 DEF DeviceInv

\* The removal gives up the reference of the probe.
LEMMA DisableKeeps ==
  ASSUME TypeOK, DeviceInv, Disable
  PROVE  (TypeOK /\ DeviceInv)'
<1>1. Holders' = Holders
  BY DEF Disable, Holders
<1>2. TypeOK'
  <2>1. core' \in CoreStates
    BY DEF TypeOK, Disable, Put, CoreStates
  <2>2. enabled' \in BOOLEAN
    BY DEF TypeOK, Disable, Put
  <2>3. refs' \in Nat
    BY HoldersFinite DEF TypeOK, Disable, Put, DeviceInv, DataInv,
       OwnReference, CallerInv, Unsetting
  <2>4. removeSema' \in {0, 1}
    BY HoldersFinite DEF TypeOK, Disable, Put, DeviceInv, DataInv,
       OwnReference, CallerInv, Unsetting
  <2> QED BY <2>1, <2>2, <2>3, <2>4 DEF TypeOK, Disable
<1>3. CallerInv'
  BY DEF TypeOK, DeviceInv, CallerInv, Unsetting, Disable, Put
<1>4. DataInv'
  BY <1>1, HoldersFinite DEF TypeOK, DeviceInv, DataInv, OwnReference,
     CallerInv, Unsetting, Disable, Put
<1>5. DoorInv'
  BY DEF TypeOK, DeviceInv, DoorInv, Settled, Unsetting, Disable, Put
<1>6. ContextInv'
  BY DEF TypeOK, DeviceInv, ContextInv, Settled, Unsetting, Disable, Put
<1>7. EntryInv'
  BY DEF TypeOK, DeviceInv, EntryInv, Settled, Attached, Disable, Put
<1>8. ThreadInv'
  BY DEF TypeOK, DeviceInv, ThreadInv, Settled, Unsetting, Attached, Disable,
     Put
<1>9. CommandInv'
  BY DeviceAssumption DEF TypeOK, DeviceInv, CommandInv, Settled, Disable, Put
<1> QED BY <1>1, <1>2, <1>3, <1>4, <1>5, <1>6, <1>7, <1>8, <1>9 DEF DeviceInv

\* SIGBUS to the applications.
LEMMA KillKeeps ==
  ASSUME TypeOK, DeviceInv, Kill
  PROVE  (TypeOK /\ DeviceInv)'
<1>1. Holders' = Holders
  BY DEF Kill, Holders
<1>2. TypeOK'
  <2>1. core' \in CoreStates
    BY DEF TypeOK, Kill, KillApps, CoreStates
  <2>2. apps' \subseteq Users
    BY DEF TypeOK, Kill, KillApps
  <2>3. killed' \subseteq Users
    BY DEF TypeOK, Kill, KillApps
  <2> QED BY <2>1, <2>2, <2>3 DEF TypeOK, Kill
<1>3. CallerInv'
  BY DEF TypeOK, DeviceInv, CallerInv, Unsetting, Kill, KillApps
<1>4. DataInv'
  BY <1>1 DEF TypeOK, DeviceInv, DataInv, OwnReference, Kill, KillApps
<1>5. DoorInv'
  BY DEF TypeOK, DeviceInv, DoorInv, Settled, Unsetting, Kill, KillApps
<1>6. ContextInv'
  BY DEF TypeOK, DeviceInv, ContextInv, Settled, Unsetting, Kill, KillApps
<1>7. EntryInv'
  BY DEF TypeOK, DeviceInv, EntryInv, Settled, Attached, Kill, KillApps
<1>8. ThreadInv'
  BY DEF TypeOK, DeviceInv, ThreadInv, Settled, Unsetting, Attached, Kill,
     KillApps
<1>9. CommandInv'
  BY DeviceAssumption DEF TypeOK, DeviceInv, CommandInv, Settled, Kill,
     KillApps
<1> QED BY <1>1, <1>2, <1>3, <1>4, <1>5, <1>6, <1>7, <1>8, <1>9 DEF DeviceInv

\* The last reference was given up: nobody is inside.
LEMMA WaitKeeps ==
  ASSUME TypeOK, DeviceInv, Wait
  PROVE  (TypeOK /\ DeviceInv)'
<1>1. Holders' = Holders
  BY DEF Wait, Holders
<1>2. TypeOK'
  <2>1. core' \in CoreStates
    BY DEF TypeOK, Wait, Down, CoreStates
  <2>2. removeSema' \in {0, 1}
    BY HoldersFinite DEF TypeOK, Wait, Down, DeviceInv, DataInv, OwnReference,
       CallerInv, Unsetting
  <2> QED BY <2>1, <2>2 DEF TypeOK, Wait
<1>3. CallerInv'
  BY DEF TypeOK, DeviceInv, CallerInv, Unsetting, Wait, Down
<1>4. DataInv'
  BY <1>1, HoldersFinite DEF TypeOK, DeviceInv, DataInv, OwnReference,
     CallerInv, Unsetting, Wait, Down
<1>5. DoorInv'
  BY DEF TypeOK, DeviceInv, DoorInv, Settled, Unsetting, Wait, Down
<1>6. ContextInv'
  BY DEF TypeOK, DeviceInv, ContextInv, Settled, Unsetting, Wait, Down
<1>7. EntryInv'
  BY DEF TypeOK, DeviceInv, EntryInv, Settled, Attached, Wait, Down
<1>8. ThreadInv'
  BY DEF TypeOK, DeviceInv, ThreadInv, Settled, Unsetting, Attached, Wait,
     Down
<1>9. CommandInv'
  BY DeviceAssumption DEF TypeOK, DeviceInv, CommandInv, Settled, Wait, Down
<1> QED BY <1>1, <1>2, <1>3, <1>4, <1>5, <1>6, <1>7, <1>8, <1>9 DEF DeviceInv

\* A signal ends the wait with users inside.
LEMMA WaitCutShortKeeps ==
  ASSUME TypeOK, DeviceInv, WaitCutShort
  PROVE  (TypeOK /\ DeviceInv)'
<1>1. Holders' = Holders
  BY DEF WaitCutShort, Holders
<1>2. TypeOK'
  <2>1. core' \in CoreStates
    BY DEF TypeOK, WaitCutShort, CoreStates
  <2>2. interrupted' \in BOOLEAN
    BY DEF TypeOK, WaitCutShort
  <2> QED BY <2>1, <2>2 DEF TypeOK, WaitCutShort
<1>3. CallerInv'
  BY DEF TypeOK, DeviceInv, CallerInv, Unsetting, WaitCutShort
<1>4. DataInv'
  BY <1>1 DEF TypeOK, DeviceInv, DataInv, OwnReference, WaitCutShort
<1>5. DoorInv'
  BY DEF TypeOK, DeviceInv, DoorInv, Settled, Unsetting, WaitCutShort
<1>6. ContextInv'
  BY DEF TypeOK, DeviceInv, ContextInv, Settled, Unsetting, WaitCutShort
<1>7. EntryInv'
  BY DEF TypeOK, DeviceInv, EntryInv, Settled, Attached, WaitCutShort
<1>8. ThreadInv'
  BY DEF TypeOK, DeviceInv, ThreadInv, Settled, Unsetting, Attached,
     WaitCutShort
<1>9. CommandInv'
  BY DeviceAssumption DEF TypeOK, DeviceInv, CommandInv, Settled, WaitCutShort
<1> QED BY <1>1, <1>2, <1>3, <1>4, <1>5, <1>6, <1>7, <1>8, <1>9 DEF DeviceInv

\* The removal takes the AMC side down, if there is one.
LEMMA DeleteKeeps ==
  ASSUME TypeOK, DeviceInv, Delete
  PROVE  (TypeOK /\ DeviceInv)'
<1>1. Holders' = Holders
  BY DEF Delete, Holders
<1>2. TypeOK'
  <2>1. core' \in CoreStates
    BY DEF TypeOK, Delete, Unset, CoreStates
  <2>2. caller' \in {"none", "setup", "unwind", "remove"}
    BY DEF TypeOK, Delete, Unset
  <2>3. apps' \subseteq Users
    BY DEF TypeOK, Delete, Unset
  <2>4. state' \in DeviceStates
    BY DEF TypeOK, Delete, Unset, DeviceStates
  <2> QED BY <2>1, <2>2, <2>3, <2>4 DEF TypeOK, Delete, DeviceStates
<1>3. CallerInv'
  BY DEF TypeOK, DeviceInv, CallerInv, Unsetting, Delete, Unset
<1>4. DataInv'
  BY <1>1 DEF TypeOK, DeviceInv, DataInv, OwnReference, Delete, Unset
<1>5. DoorInv'
  BY DEF TypeOK, DeviceInv, DoorInv, Settled, Unsetting, Delete, Unset
<1>6. ContextInv'
  BY DEF TypeOK, DeviceInv, ContextInv, Settled, Unsetting, Delete, Unset
<1>7. EntryInv'
  BY DEF TypeOK, DeviceInv, EntryInv, Settled, Attached, Delete, Unset
<1>8. ThreadInv'
  BY DEF TypeOK, DeviceInv, ThreadInv, Settled, Unsetting, Attached, EntryInv,
     ContextInv, Delete, Unset
<1>9. CommandInv'
  BY DeviceAssumption DEF TypeOK, DeviceInv, CommandInv, Settled, Delete,
     Unset
<1> QED BY <1>1, <1>2, <1>3, <1>4, <1>5, <1>6, <1>7, <1>8, <1>9 DEF DeviceInv

\* The character device closes.
LEMMA DelCdevKeeps ==
  ASSUME TypeOK, DeviceInv, DelCdev
  PROVE  (TypeOK /\ DeviceInv)'
<1>1. Holders' = Holders
  BY DEF DelCdev, Holders
<1>2. TypeOK'
  <2>1. core' \in CoreStates
    BY DEF TypeOK, DelCdev, CoreStates
  <2>2. doors' \subseteq Doors
    BY DEF TypeOK, DelCdev, Doors
  <2> QED BY <2>1, <2>2 DEF TypeOK, DelCdev
<1>3. CallerInv'
  BY DEF TypeOK, DeviceInv, CallerInv, Unsetting, DelCdev
<1>4. DataInv'
  BY <1>1 DEF TypeOK, DeviceInv, DataInv, OwnReference, DelCdev
<1>5. DoorInv'
  BY DEF TypeOK, DeviceInv, DoorInv, Settled, Unsetting, DelCdev, Doors
<1>6. ContextInv'
  BY DEF TypeOK, DeviceInv, ContextInv, Settled, Unsetting, DelCdev
<1>7. EntryInv'
  BY DEF TypeOK, DeviceInv, EntryInv, Settled, Attached, ContextInv,
     Unsetting, CallerInv, DelCdev
<1>8. ThreadInv'
  BY DEF TypeOK, DeviceInv, ThreadInv, Settled, Unsetting, Attached, DelCdev
<1>9. CommandInv'
  BY DeviceAssumption DEF TypeOK, DeviceInv, CommandInv, Settled, DelCdev
<1> QED BY <1>1, <1>2, <1>3, <1>4, <1>5, <1>6, <1>7, <1>8, <1>9 DEF DeviceInv

\* sysfs closes once none of its callbacks runs.
LEMMA DelSysfsKeeps ==
  ASSUME TypeOK, DeviceInv, DelSysfs
  PROVE  (TypeOK /\ DeviceInv)'
<1>1. Holders' = Holders
  BY DEF DelSysfs, Holders
<1>2. TypeOK'
  <2>1. core' \in CoreStates
    BY DEF TypeOK, DelSysfs, Quiet, Inside, Unwind, Unset, CoreStates
  <2>2. caller' \in {"none", "setup", "unwind", "remove"}
    BY DEF TypeOK, DelSysfs, Quiet, Inside, Unwind, Unset
  <2>3. doors' \subseteq Doors
    BY DEF TypeOK, DelSysfs, Quiet, Inside, Unwind, Unset, Doors
  <2> QED BY <2>1, <2>2, <2>3 DEF TypeOK, DelSysfs
<1>3. CallerInv'
  BY DEF TypeOK, DeviceInv, CallerInv, Unsetting, DelSysfs, Quiet, Inside,
     Unwind, Unset
<1>4. DataInv'
  BY <1>1 DEF TypeOK, DeviceInv, DataInv, OwnReference, DelSysfs, Quiet,
     Inside, Unwind, Unset
<1>5. DoorInv'
  BY DEF TypeOK, DeviceInv, DoorInv, Settled, Unsetting, DelSysfs, Quiet,
     Inside, Unwind, Unset, Doors
<1>6. ContextInv'
  BY DEF TypeOK, DeviceInv, ContextInv, Settled, Unsetting, CallerInv,
     EntryInv, Attached, DelSysfs, Quiet, Inside, Unwind, Unset
<1>7. EntryInv'
  BY DEF TypeOK, DeviceInv, EntryInv, Settled, Attached, DelSysfs, Quiet,
     Inside, Unwind, Unset
<1>8. ThreadInv'
  BY DEF TypeOK, DeviceInv, ThreadInv, Settled, Unsetting, Attached,
     CallerInv, DataInv, OwnReference, DoorInv, ContextInv, EntryInv,
     CommandInv, DelSysfs, Quiet, Inside, Unwind, Unset
<1>9. CommandInv'
  BY DeviceAssumption DEF TypeOK, DeviceInv, CommandInv, Settled, DelSysfs,
     Quiet, Inside, Unwind, Unset
<1> QED BY <1>1, <1>2, <1>3, <1>4, <1>5, <1>6, <1>7, <1>8, <1>9 DEF DeviceInv

\* kfree of pf_dev.
LEMMA FreeKeeps ==
  ASSUME TypeOK, DeviceInv, Free
  PROVE  (TypeOK /\ DeviceInv)'
<1>1. Holders' = Holders
  BY DEF Free, Holders
<1>2. TypeOK'
  <2>1. core' \in CoreStates
    BY DEF TypeOK, Free, CoreStates
  <2>2. data' \in {"none", "live", "freed"}
    BY DEF TypeOK, Free
  <2> QED BY <2>1, <2>2 DEF TypeOK, Free
<1>3. CallerInv'
  BY DEF TypeOK, DeviceInv, CallerInv, Unsetting, Free
<1>4. DataInv'
  BY <1>1 DEF TypeOK, DeviceInv, DataInv, OwnReference, Free
<1>5. DoorInv'
  BY DEF TypeOK, DeviceInv, DoorInv, Settled, Unsetting, Free
<1>6. ContextInv'
  BY DEF TypeOK, DeviceInv, ContextInv, Settled, Unsetting, Free
<1>7. EntryInv'
  BY DEF TypeOK, DeviceInv, EntryInv, Settled, Attached, Free
<1>8. ThreadInv'
  BY DEF TypeOK, DeviceInv, ThreadInv, Settled, Unsetting, Attached, Free
<1>9. CommandInv'
  BY DeviceAssumption DEF TypeOK, DeviceInv, CommandInv, Settled, Free
<1> QED BY <1>1, <1>2, <1>3, <1>4, <1>5, <1>6, <1>7, <1>8, <1>9 DEF DeviceInv

\* hwmon closes once none of its callbacks runs.
LEMMA DevresKeeps ==
  ASSUME TypeOK, DeviceInv, Devres
  PROVE  (TypeOK /\ DeviceInv)'
<1>1. Holders' = Holders
  BY DEF Devres, Holders
<1>2. TypeOK'
  <2>1. core' \in CoreStates
    BY DEF TypeOK, Devres, Quiet, Inside, CoreStates
  <2>2. doors' \subseteq Doors
    BY DEF TypeOK, Devres, Quiet, Inside, Doors
  <2> QED BY <2>1, <2>2 DEF TypeOK, Devres
<1>3. CallerInv'
  BY DEF TypeOK, DeviceInv, CallerInv, Unsetting, Devres, Quiet, Inside
<1>4. DataInv'
  BY <1>1 DEF TypeOK, DeviceInv, DataInv, OwnReference, Devres, Quiet, Inside
<1>5. DoorInv'
  BY DEF TypeOK, DeviceInv, DoorInv, Settled, Unsetting, CallerInv, Devres,
     Quiet, Inside, Doors
<1>6. ContextInv'
  BY DEF TypeOK, DeviceInv, ContextInv, Settled, Unsetting, Devres, Quiet,
     Inside
<1>7. EntryInv'
  BY DEF TypeOK, DeviceInv, EntryInv, Settled, Attached, Devres, Quiet, Inside
<1>8. ThreadInv'
  BY DEF TypeOK, DeviceInv, ThreadInv, Settled, Unsetting, Attached, Devres,
     Quiet, Inside
<1>9. CommandInv'
  BY DeviceAssumption DEF TypeOK, DeviceInv, CommandInv, Settled, Devres,
     Quiet, Inside
<1> QED BY <1>1, <1>2, <1>3, <1>4, <1>5, <1>6, <1>7, <1>8, <1>9 DEF DeviceInv

\* A heartbeat is sent by a thread that runs, below its limit.
LEMMA BeatKeeps ==
  ASSUME TypeOK, DeviceInv, Beat
  PROVE  (TypeOK /\ DeviceInv)'
<1>1. Holders' = Holders
  BY DEF Beat, Holders
<1>2. TypeOK'
  <2>1. hbPc' \in {"wait", "sleep"}
    BY DEF TypeOK, Beat, Awake, Submit, Checked
  <2>2. cmd' \in [Submitters -> CommandStates]
    BY DEF TypeOK, Beat, Awake, Submit, Checked, CommandStates, Submitters
  <2> QED BY <2>1, <2>2 DEF TypeOK, Beat, CommandStates
<1>3. CommandInv'
  BY DeviceAssumption DEF TypeOK, DeviceInv, CommandInv, Settled, Beat, Awake,
     Submit, Checked, Submitters
<1>4. (CallerInv /\ DataInv /\ DoorInv /\ ContextInv /\ EntryInv /\ ThreadInv)'
  BY <1>1 DEF DeviceInv, CallerInv, DataInv, DoorInv, ContextInv, EntryInv,
     ThreadInv, Attached, OwnReference, Settled, Unsetting, Beat
<1> QED BY <1>1, <1>2, <1>3, <1>4 DEF DeviceInv

\* fail_count and the history of missed heartbeats move together.
LEMMA BeatEndsKeeps ==
  ASSUME TypeOK, DeviceInv, NEW good \in BOOLEAN, BeatEnds(good)
  PROVE  (TypeOK /\ DeviceInv)'
<1>1. Holders' = Holders
  BY DEF BeatEnds, Holders
<1>2. TypeOK'
  <2>1. hbPc' \in {"wait", "sleep"}
    BY DEF TypeOK, BeatEnds, Over, Forget, FailCount
  <2>2. missed' \in 0 .. MissLimit
    BY DeviceAssumption DEF TypeOK, BeatEnds, Over, Forget, FailCount,
       DeviceInv, CommandInv
  <2>3. badRun' \in 0 .. MissLimit
    BY DeviceAssumption DEF TypeOK, BeatEnds, Over, Forget, FailCount
  <2>4. cmd' \in [Submitters -> CommandStates]
    BY DEF TypeOK, BeatEnds, Over, Forget, FailCount, CommandStates,
       Submitters
  <2> QED BY <2>1, <2>2, <2>3, <2>4 DEF TypeOK, BeatEnds, CommandStates
<1>3. CommandInv'
  BY DeviceAssumption DEF TypeOK, DeviceInv, CommandInv, Settled, CallerInv,
     Unsetting, DataInv, OwnReference, ContextInv, ThreadInv, Attached,
     BeatEnds, Over, Forget, FailCount, Submitters
<1>4. (CallerInv /\ DataInv /\ DoorInv /\ ContextInv /\ EntryInv /\ ThreadInv)'
  BY <1>1 DEF DeviceInv, CallerInv, DataInv, DoorInv, ContextInv, EntryInv,
     ThreadInv, Attached, OwnReference, Settled, Unsetting, BeatEnds
<1> QED BY <1>1, <1>2, <1>3, <1>4 DEF DeviceInv

\* The event comes after MissLimit misses, and after no other.
LEMMA RaiseFatalKeeps ==
  ASSUME TypeOK, DeviceInv, RaiseFatal
  PROVE  (TypeOK /\ DeviceInv)'
<1>1. Holders' = Holders
  BY DEF RaiseFatal, Holders
<1>2. TypeOK'
  <2>1. fatal' \in BOOLEAN
    BY DEF TypeOK, RaiseFatal, Awake, HaltedByEvent
  <2>2. halted' \in BOOLEAN
    BY DEF TypeOK, RaiseFatal, Awake, HaltedByEvent
  <2>3. state' \in DeviceStates
    BY DEF TypeOK, RaiseFatal, Awake, HaltedByEvent, DeviceStates
  <2> QED BY <2>1, <2>2, <2>3 DEF TypeOK, RaiseFatal, DeviceStates
<1>3. ContextInv'
  BY DEF TypeOK, DeviceInv, ContextInv, Settled, Unsetting, RaiseFatal, Awake,
     HaltedByEvent
<1>4. CommandInv'
  BY DeviceAssumption DEF TypeOK, DeviceInv, CommandInv, Settled, RaiseFatal,
     Awake, HaltedByEvent
<1>5. (CallerInv /\ DataInv /\ DoorInv /\ EntryInv /\ ThreadInv)'
  BY <1>1 DEF DeviceInv, CallerInv, DataInv, DoorInv, EntryInv, ThreadInv,
     Attached, OwnReference, Settled, Unsetting, RaiseFatal
<1> QED BY <1>1, <1>2, <1>3, <1>4, <1>5 DEF DeviceInv

\* A thread leaves its loop only while somebody waits to reap it.
LEMMA ThreadExitsKeeps ==
  ASSUME TypeOK, DeviceInv, NEW t \in Threads, ThreadExits(t)
  PROVE  (TypeOK /\ DeviceInv)'
<1>1. Holders' = Holders
  BY DEF ThreadExits, Holders
<1>2. TypeOK'
  <2>1. thread' \in [Threads -> ThreadStates]
    BY DEF TypeOK, ThreadExits, Threads, ThreadStates
  <2> QED BY <2>1 DEF TypeOK, ThreadExits, ThreadStates
<1>3. EntryInv'
  BY DEF TypeOK, DeviceInv, EntryInv, Settled, Attached, ThreadExits, Threads
<1>4. ThreadInv'
  BY DEF TypeOK, DeviceInv, ThreadInv, Settled, Unsetting, Attached,
     ThreadExits, Threads
<1>5. CommandInv'
  BY DeviceAssumption DEF TypeOK, DeviceInv, CommandInv, Settled, ThreadExits,
     Threads
<1>6. (CallerInv /\ DataInv /\ DoorInv /\ ContextInv)'
  BY <1>1 DEF DeviceInv, CallerInv, DataInv, DoorInv, ContextInv,
     OwnReference, Settled, Unsetting, ThreadExits
<1> QED BY <1>1, <1>2, <1>3, <1>4, <1>5, <1>6 DEF DeviceInv

\* A command that goes on was there before.
LEMMA MovesKeeps ==
  ASSUME TypeOK, DeviceInv, NEW s \in Submitters, 
         NEW from, NEW to \in CommandStates, from # "none", Moves(s, from, to)
  PROVE  (TypeOK /\ DeviceInv)'
<1>1. Holders' = Holders
  BY DEF Moves, Holders
<1>2. TypeOK'
  <2>1. cmd' \in [Submitters -> CommandStates]
    BY DEF TypeOK, Moves, CommandStates, Submitters
  <2> QED BY <2>1 DEF TypeOK, Moves, CommandStates
<1>3. CommandInv'
  BY DeviceAssumption DEF TypeOK, DeviceInv, CommandInv, Settled, Moves,
     Submitters
<1>4. (CallerInv /\ DataInv /\ DoorInv /\ ContextInv /\ EntryInv /\ ThreadInv)'
  BY <1>1 DEF DeviceInv, CallerInv, DataInv, DoorInv, ContextInv, EntryInv,
     ThreadInv, Attached, OwnReference, Settled, Unsetting, Moves
<1> QED BY <1>1, <1>2, <1>3, <1>4 DEF DeviceInv

\* The AMC is not part of the driver.
LEMMA AmcDiesKeeps ==
  ASSUME TypeOK, DeviceInv, AmcDies
  PROVE  (TypeOK /\ DeviceInv)'
<1>1. Holders' = Holders
  BY DEF AmcDies, Holders
<1>2. TypeOK'
  <2>1. amc' \in {"up", "dead"}
    BY DEF TypeOK, AmcDies
  <2> QED BY <2>1 DEF TypeOK, AmcDies
<1>3. (CallerInv /\ DataInv /\ DoorInv /\ ContextInv /\ EntryInv /\ ThreadInv
        /\ CommandInv)'
  BY <1>1 DEF DeviceInv, CallerInv, DataInv, DoorInv, ContextInv, EntryInv,
     ThreadInv, CommandInv, Attached, OwnReference, Settled, Unsetting,
     AmcDies
<1> QED BY <1>1, <1>2, <1>3 DEF DeviceInv

\* A user comes in by an interface that exists.
LEMMA EnterKeeps ==
  ASSUME TypeOK, DeviceInv, NEW u \in Users, NEW door \in Doors, Enter(u, door)
  PROVE  (TypeOK /\ DeviceInv)'
<1>1. Holders' = Holders
  BY DEF TypeOK, Enter, Holders
<1>2. TypeOK'
  <2>1. user' \in [Users -> UserStates]
    BY DEF TypeOK, Enter, UserStates
  <2>2. via' \in [Users -> Doors]
    BY DEF TypeOK, Enter, Doors
  <2>3. visits' \in [Users -> 0 .. MaxVisits]
    BY DeviceAssumption DEF TypeOK, Enter
  <2> QED BY <2>1, <2>2, <2>3 DEF TypeOK, Enter, UserStates
<1>3. DataInv'
  BY <1>1 DEF TypeOK, DeviceInv, DataInv, OwnReference, CallerInv, Unsetting,
     Enter
<1>4. DoorInv'
  BY DEF TypeOK, DeviceInv, DoorInv, Settled, Unsetting, Enter
<1>5. CommandInv'
  BY DeviceAssumption DEF TypeOK, DeviceInv, CommandInv, Settled, Enter
<1>6. (CallerInv /\ ContextInv /\ EntryInv /\ ThreadInv)'
  BY DEF DeviceInv, CallerInv, ContextInv, EntryInv, ThreadInv, Attached,
     Settled, Unsetting, Enter
<1> QED BY <1>1, <1>2, <1>3, <1>4, <1>5, <1>6 DEF DeviceInv

\* A reference is given out only in service, and counted.
LEMMA LookupKeeps ==
  ASSUME TypeOK, DeviceInv, NEW u \in Users, Lookup(u)
  PROVE  (TypeOK /\ DeviceInv)'
<1>1. \/ Holders' = Holders /\ refs' = refs
      \/ /\ Holders' = Holders \cup {u} /\ u \notin Holders
         /\ refs' = refs + 1 /\ enabled
  <2>1. user \in [Users -> UserStates] /\ user[u] = "lookup"
    BY DEF TypeOK, Lookup
  <2>2. CASE user' = [user EXCEPT ![u] = "held"] /\ refs' = refs + 1 /\ enabled
    <3>1. Holders' = Holders \cup {u} /\ u \notin Holders
      BY <2>1, <2>2 DEF Holders
    <3> QED BY <2>2, <3>1
  <2>3. CASE /\ user' \in {[user EXCEPT ![u] = "out"], [user EXCEPT ![u] = "wild"]}
             /\ refs' = refs
    <3>1. Holders' = Holders
      BY <2>1, <2>3 DEF Holders
    <3> QED BY <2>3, <3>1
  <2> QED BY <2>2, <2>3 DEF Lookup, GoOut, Available
<1>2. TypeOK'
  <2>1. user' \in [Users -> UserStates]
    BY DEF TypeOK, Lookup, GoOut, Available, UserStates
  <2>2. via' \in [Users -> Doors]
    BY DEF TypeOK, Lookup, GoOut, Available, Doors
  <2>3. refs' \in Nat
    BY HoldersFinite DEF TypeOK, Lookup, GoOut, Available, DeviceInv, DataInv,
       OwnReference, CallerInv, Unsetting
  <2> QED BY <2>1, <2>2, <2>3 DEF TypeOK, Lookup, UserStates
<1>3. DataInv'
  <2>1. u \notin Holders =>
          Cardinality(Holders \cup {u}) = Cardinality(Holders) + 1
    BY HoldersFinite, FS_AddElement
  <2>2. refs' = Cardinality(Holders') + OwnReference'
    <3>1. OwnReference' = OwnReference /\ OwnReference \in {0, 1}
      BY DEF OwnReference, Lookup
    <3>2. refs = Cardinality(Holders) + OwnReference
      BY DEF DeviceInv, DataInv
    <3>3. CASE Holders' = Holders /\ refs' = refs
      BY <3>1, <3>2, <3>3
    <3>4. CASE /\ Holders' = Holders \cup {u} /\ u \notin Holders
               /\ refs' = refs + 1
      <4>1. Cardinality(Holders') = Cardinality(Holders) + 1
        BY <2>1, <3>4
      <4> QED BY <3>1, <3>2, <3>4, <4>1, HoldersFinite
    <3> QED BY <1>1, <3>3, <3>4
  <2>3. removeSema' = 1 => refs' = 0 /\ core' # "create"
    BY DEF DeviceInv, DataInv, Lookup, Available
  <2> QED BY <1>1, <2>2, <2>3 DEF DeviceInv, DataInv, Lookup
<1>4. DoorInv'
  BY DEF TypeOK, DeviceInv, DoorInv, Settled, Unsetting, Lookup, GoOut,
     Available
<1>5. CommandInv'
  BY DeviceAssumption DEF TypeOK, DeviceInv, CommandInv, Settled, Lookup,
     GoOut, Available
<1>6. (CallerInv /\ ContextInv /\ EntryInv /\ ThreadInv)'
  BY DEF DeviceInv, CallerInv, ContextInv, EntryInv, ThreadInv, Attached,
     Settled, Unsetting, Lookup
<1> QED BY <1>1, <1>2, <1>3, <1>4, <1>5, <1>6 DEF DeviceInv

\* The state tells the user that there is an AMC.
LEMMA IoctlKeeps ==
  ASSUME TypeOK, DeviceInv, NEW u \in Users, Ioctl(u)
  PROVE  (TypeOK /\ DeviceInv)'
<1>1. Holders' = Holders
  BY DEF TypeOK, Ioctl, Holds, Holders
<1>2. TypeOK'
  <2>1. user' \in [Users -> UserStates]
    BY DEF TypeOK, Ioctl, Holds, UserStates
  <2> QED BY <2>1 DEF TypeOK, Ioctl, UserStates
<1>3. DataInv'
  BY <1>1 DEF TypeOK, DeviceInv, DataInv, OwnReference, CallerInv, Unsetting,
     Ioctl, Holds
<1>4. DoorInv'
  BY DEF TypeOK, DeviceInv, DoorInv, Settled, Unsetting, Ioctl, Holds
<1>5. CommandInv'
  BY DeviceAssumption DEF TypeOK, DeviceInv, CommandInv, Settled, CallerInv,
     Unsetting, DataInv, OwnReference, ContextInv, ThreadInv, Attached,
     Ioctl, Holds
<1>6. (CallerInv /\ ContextInv /\ EntryInv /\ ThreadInv)'
  BY DEF DeviceInv, CallerInv, ContextInv, EntryInv, ThreadInv, Attached,
     Settled, Unsetting, Ioctl
<1> QED BY <1>1, <1>2, <1>3, <1>4, <1>5, <1>6 DEF DeviceInv

\* A user with the semaphore submits a command.
LEMMA TakeSemaKeeps ==
  ASSUME TypeOK, DeviceInv, NEW u \in Users, TakeSema(u)
  PROVE  (TypeOK /\ DeviceInv)'
<1>1. Holders' = Holders
  BY DEF TypeOK, TakeSema, Holders
<1>2. TypeOK'
  <2>1. user' \in [Users -> UserStates]
    BY DEF TypeOK, TakeSema, SemaFree, Submit, Checked, UserStates
  <2>2. sema' \in SUBSET Users /\ Cardinality(sema') <= 1
    BY FS_EmptySet, FS_Singleton DEF TypeOK, TakeSema, SemaFree, Submit,
       Checked
  <2>3. cmd' \in [Submitters -> CommandStates]
    BY DEF TypeOK, TakeSema, SemaFree, Submit, Checked, CommandStates,
       Submitters
  <2> QED BY <2>1, <2>2, <2>3 DEF TypeOK, TakeSema, UserStates, CommandStates
<1>3. DataInv'
  BY <1>1 DEF TypeOK, DeviceInv, DataInv, OwnReference, CallerInv, Unsetting,
     TakeSema, SemaFree, Submit, Checked
<1>4. DoorInv'
  BY DEF TypeOK, DeviceInv, DoorInv, Settled, Unsetting, TakeSema, SemaFree,
     Submit, Checked
<1>5. CommandInv'
  BY DeviceAssumption DEF TypeOK, DeviceInv, CommandInv, Settled, TakeSema,
     SemaFree, Submit, Checked, Submitters
<1>6. (CallerInv /\ ContextInv /\ EntryInv /\ ThreadInv)'
  BY DEF DeviceInv, CallerInv, ContextInv, EntryInv, ThreadInv, Attached,
     Settled, Unsetting, TakeSema
<1> QED BY <1>1, <1>2, <1>3, <1>4, <1>5, <1>6 DEF DeviceInv

\* A killed user leaves without the semaphore.
LEMMA LeaveSemaKeeps ==
  ASSUME TypeOK, DeviceInv, NEW u \in Users, LeaveSema(u)
  PROVE  (TypeOK /\ DeviceInv)'
<1>1. Holders' = Holders
  BY DEF TypeOK, LeaveSema, Holders
<1>2. TypeOK'
  <2>1. user' \in [Users -> UserStates]
    BY DEF TypeOK, LeaveSema, UserStates
  <2> QED BY <2>1 DEF TypeOK, LeaveSema, UserStates
<1>3. DataInv'
  BY <1>1 DEF TypeOK, DeviceInv, DataInv, OwnReference, CallerInv, Unsetting,
     LeaveSema
<1>4. DoorInv'
  BY DEF TypeOK, DeviceInv, DoorInv, Settled, Unsetting, LeaveSema
<1>5. CommandInv'
  BY DeviceAssumption DEF TypeOK, DeviceInv, CommandInv, Settled, LeaveSema
<1>6. (CallerInv /\ ContextInv /\ EntryInv /\ ThreadInv)'
  BY DEF DeviceInv, CallerInv, ContextInv, EntryInv, ThreadInv, Attached,
     Settled, Unsetting, LeaveSema
<1> QED BY <1>1, <1>2, <1>3, <1>4, <1>5, <1>6 DEF DeviceInv

\* A sensor is read through hwmon, which exists only with an AMC.
LEMMA ReadSensorKeeps ==
  ASSUME TypeOK, DeviceInv, NEW u \in Users, ReadSensor(u)
  PROVE  (TypeOK /\ DeviceInv)'
<1>1. Holders' = Holders
  BY DEF TypeOK, ReadSensor, Holds, Holders
<1>2. TypeOK'
  <2>1. user' \in [Users -> UserStates]
    BY DEF TypeOK, ReadSensor, Holds, Submit, Checked, UserStates
  <2>2. cmd' \in [Submitters -> CommandStates]
    BY DEF TypeOK, ReadSensor, Holds, Submit, Checked, CommandStates,
       Submitters
  <2> QED BY <2>1, <2>2 DEF TypeOK, ReadSensor, UserStates, CommandStates
<1>3. DataInv'
  BY <1>1 DEF TypeOK, DeviceInv, DataInv, OwnReference, CallerInv, Unsetting,
     ReadSensor, Holds, Submit, Checked
<1>4. DoorInv'
  BY DEF TypeOK, DeviceInv, DoorInv, Settled, Unsetting, ReadSensor, Holds,
     Submit, Checked
<1>5. CommandInv'
  BY DeviceAssumption
  DEF TypeOK, DeviceInv, CommandInv, DoorInv, Settled, CallerInv,
     Unsetting, DataInv, OwnReference, ContextInv, ThreadInv, Attached,
     ReadSensor, Holds, Submit, Checked, Submitters
<1>6. (CallerInv /\ ContextInv /\ EntryInv /\ ThreadInv)'
  BY DEF DeviceInv, CallerInv, ContextInv, EntryInv, ThreadInv, Attached,
     Settled, Unsetting, ReadSensor
<1> QED BY <1>1, <1>2, <1>3, <1>4, <1>5, <1>6 DEF DeviceInv

\* The command is forgotten; the reference is kept.
LEMMA FinishKeeps ==
  ASSUME TypeOK, DeviceInv, NEW u \in Users, Finish(u)
  PROVE  (TypeOK /\ DeviceInv)'
<1>1. Holders' = Holders
  BY DEF TypeOK, Finish, Holders
<1>2. TypeOK'
  <2>1. user' \in [Users -> UserStates]
    BY DEF TypeOK, Finish, Over, Forget, KillApps, UserStates
  <2>2. sema' \in SUBSET Users /\ Cardinality(sema') <= 1
    <3>1. sema \in SUBSET Users /\ Cardinality(sema) <= 1 /\ sema' \in SUBSET sema
      BY DEF TypeOK, Finish
    <3>2. IsFiniteSet(sema)
      BY <3>1, DeviceAssumption, FS_Subset
    <3>3. /\ IsFiniteSet(sema') /\ Cardinality(sema') <= Cardinality(sema)
          /\ Cardinality(sema) \in Nat /\ Cardinality(sema') \in Nat
      BY <3>1, <3>2, FS_Subset, FS_CardinalityType
    <3> QED BY <3>1, <3>3
  <2>3. cmd' \in [Submitters -> CommandStates]
    BY DEF TypeOK, Finish, Over, Forget, KillApps, CommandStates, Submitters
  <2>4. apps' \subseteq Users
    BY DEF TypeOK, Finish, Over, Forget, KillApps
  <2>5. killed' \subseteq Users
    BY DEF TypeOK, Finish, Over, Forget, KillApps
  <2> QED BY <2>1, <2>2, <2>3, <2>4, <2>5 DEF TypeOK, Finish, UserStates,
     CommandStates
<1>3. DataInv'
  BY <1>1 DEF TypeOK, DeviceInv, DataInv, OwnReference, CallerInv, Unsetting,
     Finish, Over, Forget, KillApps
<1>4. DoorInv'
  BY DEF TypeOK, DeviceInv, DoorInv, Settled, Unsetting, Finish, Over, Forget,
     KillApps
<1>5. CommandInv'
  BY DeviceAssumption DEF TypeOK, DeviceInv, CommandInv, Settled, CallerInv,
     Unsetting, DataInv, OwnReference, ContextInv, ThreadInv, Attached,
     Finish, Over, Forget, KillApps, Submitters
<1>6. (CallerInv /\ ContextInv /\ EntryInv /\ ThreadInv)'
  BY DEF DeviceInv, CallerInv, ContextInv, EntryInv, ThreadInv, Attached,
     Settled, Unsetting, Finish
<1> QED BY <1>1, <1>2, <1>3, <1>4, <1>5, <1>6 DEF DeviceInv

\* An application registers or leaves.
LEMMA SetupKeeps ==
  ASSUME TypeOK, DeviceInv, NEW u \in Users, Setup(u)
  PROVE  (TypeOK /\ DeviceInv)'
<1>1. Holders' = Holders
  BY DEF Setup, Holders
<1>2. TypeOK'
  <2>1. apps' \subseteq Users
    BY DEF TypeOK, Setup, Holds, SemaFree
  <2> QED BY <2>1 DEF TypeOK, Setup
<1>3. (CallerInv /\ DataInv /\ DoorInv /\ ContextInv /\ EntryInv /\ ThreadInv
        /\ CommandInv)'
  BY <1>1 DEF DeviceInv, CallerInv, DataInv, DoorInv, ContextInv, EntryInv,
     ThreadInv, CommandInv, Attached, OwnReference, Settled, Unsetting,
     Setup
<1> QED BY <1>1, <1>2, <1>3 DEF DeviceInv

\* A reference is given up, and counted.
LEMMA LeaveKeeps ==
  ASSUME TypeOK, DeviceInv, NEW u \in Users, Leave(u)
  PROVE  (TypeOK /\ DeviceInv)'
<1>1. u \in Holders /\ Holders' = Holders \ {u} /\ refs \in Nat \ {0}
      /\ Cardinality(Holders') = Cardinality(Holders) - 1
  <2>1. u \in Holders /\ Holders' = Holders \ {u}
    BY DEF TypeOK, Leave, GoOut, Holders
  <2>2. Cardinality(Holders \ {u}) = Cardinality(Holders) - 1
    BY <2>1, HoldersFinite, FS_RemoveElement
  <2>3. Cardinality(Holders) \in Nat \ {0}
    BY <2>1, HoldersFinite
  <2> QED BY <2>1, <2>2, <2>3 DEF TypeOK, DeviceInv, DataInv, OwnReference
<1>2. TypeOK'
  <2>1. user' \in [Users -> UserStates]
    BY DEF TypeOK, Leave, GoOut, Put, UserStates
  <2>2. via' \in [Users -> Doors]
    BY DEF TypeOK, Leave, GoOut, Put, Doors
  <2>3. refs' \in Nat
    BY <1>1 DEF Leave, Put
  <2>4. removeSema' \in {0, 1}
    BY DEF TypeOK, Leave, Put, DeviceInv, DataInv
  <2> QED BY <2>1, <2>2, <2>3, <2>4 DEF TypeOK, Leave, UserStates
<1>3. DataInv'
  <2>1. OwnReference' = OwnReference /\ OwnReference \in {0, 1}
    BY DEF OwnReference, Leave
  <2>2. refs' = Cardinality(Holders') + OwnReference'
    BY <1>1, <2>1, HoldersFinite DEF DeviceInv, DataInv, Leave, Put
  <2>3. removeSema' = 1 => refs' = 0 /\ core' # "create"
    BY <1>1 DEF TypeOK, DeviceInv, DataInv, CallerInv, Unsetting, Leave, Put
  <2> QED BY <1>1, <2>2, <2>3 DEF DeviceInv, DataInv, Leave
<1>4. DoorInv'
  BY DEF TypeOK, DeviceInv, DoorInv, Settled, Unsetting, Leave, GoOut, Put
<1>5. CommandInv'
  BY DeviceAssumption DEF TypeOK, DeviceInv, CommandInv, Settled, Leave,
     GoOut, Put
<1>6. (CallerInv /\ ContextInv /\ EntryInv /\ ThreadInv)'
  BY DEF DeviceInv, CallerInv, ContextInv, EntryInv, ThreadInv, Attached,
     Settled, Unsetting, Leave
<1> QED BY <1>1, <1>2, <1>3, <1>4, <1>5, <1>6 DEF DeviceInv

-----------------------------------------------------------------------------
(* The theorems.                                                           *)

\* The device is created once, empty.
LEMMA InitDevice == Init => TypeOK /\ DeviceInv
<1> SUFFICES ASSUME Init
             PROVE  TypeOK /\ DeviceInv
  OBVIOUS
<1>1. Holders = {}
  BY DEF Init, Holders
<1>2. TypeOK
  <2>1. sema \in SUBSET Users /\ Cardinality(sema) <= 1
    BY FS_EmptySet DEF Init
  <2>2. /\ missed \in 0 .. MissLimit /\ badRun \in 0 .. MissLimit
        /\ visits \in [Users -> 0 .. MaxVisits]
    BY DeviceAssumption DEF Init
  <2>3. /\ thread \in [Threads -> ThreadStates] /\ cmd \in [Submitters -> CommandStates]
        /\ user \in [Users -> UserStates] /\ via \in [Users -> Doors]
    BY DEF Init, ThreadStates, CommandStates, UserStates, Doors
  <2> QED BY <2>1, <2>2, <2>3 DEF Init, TypeOK, CoreStates, DeviceStates
<1>3. DataInv
  BY <1>1, FS_EmptySet DEF Init, DataInv, OwnReference
<1>4. CallerInv /\ DoorInv /\ ContextInv
  BY DEF Init, CallerInv, DoorInv, ContextInv, Unsetting, Settled
<1>5. EntryInv /\ ThreadInv /\ CommandInv
  BY DeviceAssumption
  DEF Init, EntryInv, ThreadInv, CommandInv, Attached, Unsetting, Settled,
     Threads, Submitters
<1> QED BY <1>2, <1>3, <1>4, <1>5 DEF DeviceInv

\* Each kind of step keeps the invariant.
LEMMA NextKeeps ==
  ASSUME TypeOK, DeviceInv, [Next]_vars
  PROVE  (TypeOK /\ DeviceInv)'
<1>1. CASE ProbeDevice
  BY <1>1, CreateKeeps, MapEndpointsKeeps, ProxyInitKeeps, CreateLogKeeps,
     VersionKeeps, CompatStopKeeps, DiscoverKeeps, DiscoveredKeeps,
     RegisterSysfsKeeps, CreateCdevKeeps, CheckStateKeeps, SetReadyKeeps,
     EnableKeeps
  DEF ProbeDevice
<1>2. CASE UnsetAmc
  BY <1>2, StopHbKeeps, StopLogKeeps, HaltKeeps, DrainKeeps, CloseEntryKeeps,
     ReleaseKeeps
  DEF UnsetAmc
<1>3. CASE Disable \/ WaitCutShort \/ RemoveDevice
  BY <1>3, DisableKeeps, WaitCutShortKeeps, KillKeeps, WaitKeeps, DeleteKeeps,
     DelCdevKeeps, DelSysfsKeeps, FreeKeeps, DevresKeeps
  DEF RemoveDevice
<1>4. CASE Heartbeat \/ AmcDies \/ (\E t \in Threads : ThreadExits(t))
  BY <1>4, BeatKeeps, BeatEndsKeeps, RaiseFatalKeeps, AmcDiesKeeps,
     ThreadExitsKeeps
  DEF Heartbeat
<1>5. CASE \E s \in Submitters : Send(s) \/ Answer(s) \/ Expire(s) \/ Abort(s)
  <2>1. PICK s \in Submitters : Send(s) \/ Answer(s) \/ Expire(s) \/ Abort(s)
    BY <1>5
  <2>2. \E from, to \in CommandStates : from # "none" /\ Moves(s, from, to)
    BY <2>1 DEF Send, Answer, Expire, Abort, CommandStates
  <2> QED BY <2>2, MovesKeeps
<1>6. CASE \E u \in Users : UserStep(u)
  BY <1>6, EnterKeeps, LookupKeeps, IoctlKeeps, TakeSemaKeeps, LeaveSemaKeeps,
     ReadSensorKeeps, FinishKeeps, SetupKeeps, LeaveKeeps
  DEF UserStep
<1>7. CASE UNCHANGED vars
  <2>1. Holders' = Holders
    BY <1>7 DEF vars, Holders
  <2>2. TypeOK'
    BY <1>7 DEF vars, TypeOK
  <2>3. DeviceInv'
    BY <1>7, <2>1
    DEF vars, DeviceInv, CallerInv, DataInv, DoorInv, ContextInv, EntryInv,
       ThreadInv, CommandInv, OwnReference, Attached
  <2> QED BY <2>2, <2>3
<1> QED BY <1>1, <1>2, <1>3, <1>4, <1>5, <1>6, <1>7 DEF Next

\* The device is well typed, for any users and any limit of missed heartbeats:
\* no reference is given up that was not taken, fail_count stays within its
\* threshold, and one user at a time has the semaphore.
THEOREM TypeCorrect == Spec => []TypeOK
BY InitDevice, NextKeeps, PTL DEF Spec

\* The invariant that the other theorems rest on.
LEMMA DeviceInvariant == Spec => [](TypeOK /\ DeviceInv)
BY InitDevice, NextKeeps, PTL DEF Spec

\* However set-up fails, removal starts and users come and go, unless a signal
\* cuts the removal short: whoever holds a reference finds the device, whoever is
\* in a command finds the context, the proxy instance and a response thread, and
\* a thread is reaped once.  It is not said of a look-up by the character device
\* or by hwmon, which needs no signal to find a device that was freed.
THEOREM DeviceMemorySafe == Spec => []NoUseAfterFree
<1>1. ASSUME TypeOK, DeviceInv, ~interrupted
      PROVE  DataInUse
  BY <1>1
  DEF TypeOK, DeviceInv, DataInv, DoorInv, DataInUse, Settled, Unsetting
<1>2. ASSUME TypeOK, DeviceInv, ~interrupted
      PROVE  ContextInUse /\ WaitIsServed
  <2>1. ASSUME NEW s \in Submitters, cmd[s] # "none"
        PROVE  /\ ctxt = "live" /\ entry = "listed"
               /\ core \in Settled \cup {"version", "discover", "discovering",
                                         "delSysfs", "stopHb"}
    <3>1. CASE s = Hb
      BY <1>2, <2>1, <3>1
      DEF DeviceInv, CommandInv, ThreadInv, EntryInv, Attached
    <3>2. CASE s = Probe
      BY <1>2, <2>1, <3>2 DEF DeviceInv, CommandInv, ContextInv, EntryInv
    <3>3. CASE s \in Users
      <4>1. user[s] = "wait" /\ s \in Holders
        BY <1>2, <2>1, <3>3 DEF DeviceInv, CommandInv, Holders
      <4>2. core \in {"live", "kill", "wait"}
        BY <1>2, <4>1 DEF DeviceInv, DataInv
      <4>3. ctxt = "live" /\ entry = "listed"
        BY <1>2, <3>3, <4>1, <4>2
        DEF DeviceInv, CommandInv, EntryInv, Settled
      <4> QED BY <4>2, <4>3 DEF Settled
    <3> QED BY <2>1, <3>1, <3>2, <3>3 DEF Submitters
  <2>2. \A t \in Threads : thread[t] = "running" => ctxt = "live"
    BY <1>2 DEF DeviceInv, ThreadInv, EntryInv, Attached, Threads
  <2>3. thread["rsp"] = "running" => entry = "listed"
    BY <1>2 DEF DeviceInv, EntryInv, Attached
  <2>4. ContextInUse
    BY <2>1, <2>2, <2>3 DEF ContextInUse, Busy
  <2>5. WaitIsServed
    BY <1>2, <2>1
    DEF WaitIsServed, DeviceInv, EntryInv, Attached, Settled
  <2> QED BY <2>4, <2>5
<1>3. ASSUME TypeOK, DeviceInv
      PROVE  ThreadInUse
  BY <1>3
  DEF ThreadInUse, DeviceInv, ContextInv, ThreadInv, Attached, Unsetting
<1>4. TypeOK /\ DeviceInv => NoUseAfterFree
  BY <1>1, <1>2, <1>3 DEF NoUseAfterFree
<1> QED BY <1>4, DeviceInvariant, PTL

\* The AMC is given up after MissLimit heartbeats in a row went wrong, and a
\* device in use is not halted for another reason, for every limit.
THEOREM HaltsOnlyTheDead == Spec => []HaltedIfDead
<1>1. TypeOK /\ DeviceInv => HaltedIfDead
  BY DEF HaltedIfDead, DeviceInv, DataInv, ContextInv, CommandInv, Settled
<1> QED BY <1>1, DeviceInvariant, PTL

\* Neither a removal, cut short or not, nor a failed probe leaves a thread, a
\* context, a listed instance or an interface behind.
THEOREM TornDownWhole == Spec => []NothingLeft
<1>1. ASSUME TypeOK, DeviceInv, core \in {"gone", "failed"}
      PROVE  \A t \in Threads : thread[t] \in {"none", "reaped"}
  BY <1>1
  DEF TypeOK, ThreadStates, Threads, DeviceInv, EntryInv, ThreadInv, ContextInv,
     Attached
<1>2. ASSUME TypeOK, DeviceInv, core \in {"gone", "failed"}
      PROVE  ctxt = "none" /\ entry # "listed" /\ doors = {} /\ data = "freed"
  BY <1>2
  DEF DeviceInv, DataInv, DoorInv, ContextInv, EntryInv, Settled, Unsetting
<1>3. ASSUME TypeOK, DeviceInv, core \in {"gone", "failed"}, ~interrupted
      PROVE  refs <= 1
  BY <1>3, HoldersFinite DEF DeviceInv, DataInv, OwnReference
<1>4. TypeOK /\ DeviceInv => NothingLeft
  BY <1>1, <1>2, <1>3 DEF NothingLeft
<1> QED BY <1>4, DeviceInvariant, PTL
=============================================================================
