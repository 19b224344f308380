------------------------- MODULE FlashConfig_proofs -------------------------
(***************************************************************************)
(* Proofs about the configuration in flash, for any fields, addresses and  *)
(* default networks.                                                       *)
(***************************************************************************)
EXTENDS FlashConfig, TLAPS

\* UniqueMac does not carry over a start by itself: what makes it inductive is
\* that a whole configuration in flash carries the board's MAC as well.
StoredMac == flash \in Config => flash.mac = OwnMac

OffIsZero == at = "off" => gen_cfg = NoPower

IInv == TypeOK /\ UniqueMac /\ StoredMac /\ OffIsZero

LEMMA UniqueConfig ==
  ASSUME NEW c \in Config
  PROVE  Unique(c) \in Config /\ Unique(c).mac = OwnMac
BY DEF Unique, Config

LEMMA DefaultConfig ==
  ASSUME NEW d \in Defaults
  PROVE  [net |-> d, mac |-> CommonMac] \in Config
BY ConfigAssumption DEF Config

\* A field of a configuration can be set to any address.
LEMMA SetConfig ==
  ASSUME NEW c \in Config, NEW f \in Field, NEW a \in Addr
  PROVE  /\ [c EXCEPT !.net[f] = a] \in Config
         /\ [c EXCEPT !.net[f] = a].mac = c.mac
BY DEF Config, Net

Copies == [0..2 -> Config \union {Zero}]

LEMMA SetCopy ==
  ASSUME NEW g \in Copies, NEW c \in Config \union {Zero}
  PROVE  LET h == [g EXCEPT ![1] = c]
         IN h[0] = g[0] /\ h[1] = c /\ h \in Copies
BY DEF Copies

\* Every command on the copy being changed leaves the same trace.
LEMMA ChangeKeeps ==
  ASSUME IInv, NEW c \in Config, c.mac = OwnMac, Change(c)
  PROVE  IInv'
<1>1. gen_cfg'[0] = gen_cfg[0] /\ gen_cfg'[1] = c /\ gen_cfg' \in Copies
  <2>1. gen_cfg \in Copies /\ gen_cfg' = [gen_cfg EXCEPT ![1] = c]
    BY DEF IInv, TypeOK, Change, Copies
  <2>2. c \in Config \union {Zero}
    OBVIOUS
  <2> QED BY ONLY <2>1, <2>2, SetCopy
<1>2. TypeOK'
  BY <1>1 DEF IInv, TypeOK, Change, Copies
<1>3. UniqueMac'
  BY <1>1 DEF IInv, UniqueMac, Change
<1>4. StoredMac' /\ OffIsZero'
  BY DEF IInv, StoredMac, OffIsZero, Change
<1> QED BY <1>2, <1>3, <1>4 DEF IInv

\* The default is built from a MAC that is not the board's, and made unique.
LEMMA StartKeeps ==
  ASSUME IInv, ConfigInit
  PROVE  IInv'
<1>1. PICK d \in Defaults, readable \in Readable :
        LET default == [net |-> d, mac |-> CommonMac]
            start   == IF readable /\ CrcGood(flash) THEN flash ELSE Unique(default)
        IN /\ default_config' = default
           /\ gen_cfg' = [gen_cfg EXCEPT ![0] = start, ![1] = start, ![2] = Zero]
  BY DEF ConfigInit
<1> DEFINE default == [net |-> d, mac |-> CommonMac]
           start   == IF readable /\ CrcGood(flash) THEN flash ELSE Unique(default)
<1>2. start \in Config /\ start.mac = OwnMac
  <2>1. CASE readable /\ CrcGood(flash)
    BY <2>1 DEF CrcGood, IInv, StoredMac
  <2>2. CASE ~(readable /\ CrcGood(flash))
    BY <2>2, DefaultConfig, UniqueConfig
  <2> QED BY <2>1, <2>2
<1>3. /\ gen_cfg \in [0..2 -> Config \union {Zero}]
      /\ gen_cfg' = [gen_cfg EXCEPT ![0] = start, ![1] = start, ![2] = Zero]
  BY <1>1 DEF IInv, TypeOK
<1> HIDE DEF start
<1>4. /\ gen_cfg'[0] = start /\ gen_cfg'[1] = start
      /\ gen_cfg' \in [0..2 -> Config \union {Zero}]
  BY <1>2, <1>3
<1>5. default_config' \in [net: Defaults, mac: {CommonMac}]
  BY <1>1
<1>6. TypeOK'
  BY <1>2, <1>4, <1>5 DEF IInv, TypeOK, ConfigInit
<1>7. UniqueMac'
  BY <1>2, <1>4 DEF UniqueMac
<1>8. StoredMac' /\ OffIsZero'
  BY DEF IInv, StoredMac, OffIsZero, ConfigInit
<1> QED BY <1>6, <1>7, <1>8 DEF IInv

\* config_default ends as config_recovery does.
LEMMA DefaultIsCurrent ==
  ASSUME TypeOK, ConfigDefault
  PROVE  Change(gen_cfg[0])
<1>1. gen_cfg \in Copies
  BY DEF TypeOK, Copies
<1>2. ASSUME NEW c PROVE [gen_cfg EXCEPT ![1] = c][0] = gen_cfg[0]
  BY ONLY <1>1 DEF Copies
<1> QED BY <1>2 DEF ConfigDefault

LEMMA InvInit == Init => IInv
BY ConfigAssumption DEF Init, NoPower, IInv, TypeOK, UniqueMac, StoredMac, OffIsZero

LEMMA InvNext == IInv /\ [Next]_vars => IInv'
<1> SUFFICES ASSUME IInv, [Next]_vars PROVE IInv'
  OBVIOUS
<1>a. at = "loop" => /\ gen_cfg[0] \in Config /\ gen_cfg[0].mac = OwnMac
                     /\ gen_cfg[1] \in Config /\ gen_cfg[1].mac = OwnMac
  BY DEF IInv, TypeOK, UniqueMac
<1>1. CASE ConfigInit
  BY <1>1, StartKeeps
<1>2. ASSUME NEW f \in Field, NEW a \in Addr, SetField(f, a) PROVE IInv'
  <2>1. at = "loop"
    BY <1>2 DEF SetField, Change
  <2> DEFINE c == [gen_cfg[1] EXCEPT !.net[f] = a]
  <2>2. c \in Config /\ c.mac = OwnMac
    BY <2>1, <1>a, SetConfig
  <2>3. Change(c)
    BY <1>2 DEF SetField
  <2> HIDE DEF c
  <2> QED BY <2>2, <2>3, ChangeKeeps
<1>3. CASE ConfigRecovery
  BY <1>3, <1>a, ChangeKeeps DEF ConfigRecovery, Change
<1>4. CASE ConfigDefault
  <2>1. Change(gen_cfg[0])
    BY <1>4, DefaultIsCurrent DEF IInv
  <2> QED BY <2>1, <1>a, ChangeKeeps DEF Change
<1>5. CASE ConfigSave
  BY <1>5 DEF ConfigSave, IInv, TypeOK, UniqueMac, StoredMac, OffIsZero
<1>6. CASE EraseSector
  BY <1>6, ConfigAssumption DEF EraseSector, IInv, TypeOK, UniqueMac, StoredMac, OffIsZero
<1>7. CASE ProgramSector
  BY <1>7 DEF ProgramSector, Saved, IInv, TypeOK, UniqueMac, StoredMac, OffIsZero
<1>8. CASE PowerLoss
  <2>1. /\ flash' \in {flash, Torn, Blank, gen_cfg[1]}
        /\ flash' = gen_cfg[1] =>
             flash' = flash \/ at = "program" \/ flash' \notin Config
    BY <1>8, ConfigAssumption DEF PowerLoss, Remains, Saved
  <2> QED BY <1>8, <2>1, ConfigAssumption
          DEF PowerLoss, Remains, NoPower, Saved, IInv, TypeOK, UniqueMac, StoredMac, OffIsZero
<1>9. CASE UNCHANGED vars
  BY <1>9 DEF vars, IInv, TypeOK, UniqueMac, StoredMac, OffIsZero
<1> QED BY <1>1, <1>2, <1>3, <1>4, <1>5, <1>6, <1>7, <1>8, <1>9 DEF Next

THEOREM InvHolds == Spec => []IInv
BY InvInit, InvNext, PTL DEF Spec

\* Type correctness, for any fields, addresses and default networks.
THEOREM ConfigTypeCorrect == Spec => []TypeOK
BY InvHolds, PTL DEF IInv

\* No sequence of edits, saves and power losses gives up the board's own MAC.
THEOREM MacStaysUnique == Spec => []UniqueMac
BY InvHolds, PTL DEF IInv

-----------------------------------------------------------------------------
(* The configuration store implements ConfigStore. *)

LEMMA StoreInit == Init => Store!Init
BY ConfigAssumption DEF Init, NoPower, Valid, CrcGood, Store!Init

\* A start takes the stored configuration, or a default one.
LEMMA StartImplements ==
  ASSUME Readable = {TRUE}, IInv, IInv', ConfigInit
  PROVE  Store!PowerUp
<1>1. gen_cfg[0] = Zero
  BY DEF IInv, OffIsZero, NoPower, ConfigInit
<1>2. gen_cfg \in Copies /\ gen_cfg'[0] \in Config
  BY DEF IInv, TypeOK, ConfigInit, Copies
<1>3. gen_cfg'[1] = gen_cfg'[0]
  BY <1>2 DEF ConfigInit, Copies
<1>4. CrcGood(flash) => gen_cfg'[0] = flash
  BY <1>2 DEF ConfigInit, Copies
<1>5. Valid(flash) # Zero => gen_cfg'[0] = Valid(flash)
  BY <1>4 DEF Valid
<1>6. at = "off" /\ at' = "loop" /\ flash' = flash
  BY DEF ConfigInit
<1> QED BY <1>1, <1>2, <1>3, <1>5, <1>6 DEF Store!PowerUp, Valid

\* A command changes the pending configuration and nothing else.
LEMMA ChangeImplements ==
  ASSUME IInv, NEW c \in Config, Change(c)
  PROVE  Store!Edit
<1>1. gen_cfg \in Copies /\ gen_cfg' = [gen_cfg EXCEPT ![1] = c]
  BY DEF IInv, TypeOK, Change, Copies
<1>2. c \in Config \union {Zero}
  OBVIOUS
<1>3. gen_cfg'[0] = gen_cfg[0] /\ gen_cfg'[1] = c
  BY ONLY <1>1, <1>2, SetCopy
<1>4. at = "loop" /\ at' = at /\ flash' = flash
  BY DEF Change
<1>5. gen_cfg[0] # Zero
  BY <1>4, ConfigAssumption DEF IInv, TypeOK
<1> QED BY <1>3, <1>4, <1>5 DEF Store!Edit, Valid

LEMMA StoreNext ==
  ASSUME Readable = {TRUE}, IInv, IInv', [Next]_vars
  PROVE  [Store!Next]_Store!storeVars
<1>a. at # "off" => gen_cfg[0] \in Config /\ gen_cfg[1] \in Config
  BY DEF IInv, TypeOK
<1>1. CASE ConfigInit
  BY <1>1, StartImplements DEF Store!Next
<1>2. ASSUME NEW f \in Field, NEW a \in Addr, SetField(f, a) PROVE Store!Edit
  <2>1. [gen_cfg[1] EXCEPT !.net[f] = a] \in Config
    BY <1>2, <1>a, SetConfig DEF SetField, Change
  <2> QED BY <1>2, <2>1, ChangeImplements DEF SetField
<1>3. CASE ConfigRecovery
  BY <1>3, <1>a, ChangeImplements DEF ConfigRecovery, Change, Store!Next
<1>4. CASE ConfigDefault
  <2>1. Change(gen_cfg[0])
    BY <1>4, DefaultIsCurrent DEF IInv
  <2> QED BY <2>1, <1>a, ChangeImplements DEF Change, Store!Next
<1>5. CASE ConfigSave
  <2>1. gen_cfg[0] # Zero
    BY <1>5, <1>a, ConfigAssumption DEF ConfigSave
  <2>2. Store!BeginSave
    BY <1>5, <2>1 DEF ConfigSave, Store!BeginSave, Valid
  <2> QED BY <2>2 DEF Store!Next
<1>6. CASE EraseSector
  BY <1>6 DEF EraseSector, Saved, Store!Store, Store!Next
<1>7. CASE ProgramSector
  <2>1. gen_cfg[1] \in Config
    BY <1>7, <1>a DEF ProgramSector
  <2>2. Store!EndSave
    BY <1>7, <2>1 DEF ProgramSector, Saved, Valid, CrcGood, Store!EndSave
  <2> QED BY <2>2 DEF Store!Next
<1>8. CASE PowerLoss
  <2>1. at' = "off" /\ gen_cfg'[0] = Zero /\ gen_cfg'[1] = Zero
    BY <1>8 DEF PowerLoss, NoPower
  <2>2. flash' \in Remains
    BY <1>8 DEF PowerLoss
  <2>3. Blank \notin Config /\ Torn \notin Config
    BY ConfigAssumption
  <2>4. CASE at = "erase"
    BY <2>1, <2>2, <2>3, <2>4 DEF Remains, Valid, CrcGood, Store!PowerLoss, Store!Next
  <2>5. CASE at = "program"
    <3>1. gen_cfg[1] \in Config
      BY <2>5, <1>a
    <3> QED BY <2>1, <2>2, <2>3, <2>5, <3>1
            DEF Remains, Saved, Valid, CrcGood, Store!PowerLoss, Store!Next
  <2>6. CASE at = "loop"
    BY <2>1, <2>2, <2>6 DEF Remains, Valid, Store!PowerLoss, Store!Next
  <2> QED BY <1>8, <2>4, <2>5, <2>6 DEF PowerLoss, IInv, TypeOK
<1>9. CASE UNCHANGED vars
  BY <1>9 DEF vars, Saved, Valid, Store!storeVars
<1> QED BY <1>1, <1>2, <1>3, <1>4, <1>5, <1>6, <1>7, <1>8, <1>9 DEF Next, Store!Next

\* Where the flash can be read, a save that ended outlives every power loss, and
\* only one that was cut off puts the stored configuration at risk.
THEOREM ConfigurationKept ==
  ASSUME Readable = {TRUE}
  PROVE  Spec => KeepsConfiguration
<1>1. IInv /\ IInv' /\ [Next]_vars => [Store!Next]_Store!storeVars
  BY StoreNext
<1> QED BY <1>1, InvHolds, StoreInit, PTL DEF Spec, KeepsConfiguration, Store!Spec
=============================================================================
