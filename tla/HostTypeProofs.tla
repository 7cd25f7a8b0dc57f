---------------------------- MODULE HostTypeProofs ----------------------------
(***************************************************************************)
(* The ten components of the host together: each one's invariant, proved   *)
(* in HostProofs, CommandProofs and StorageProofs for its own steps, holds *)
(* where they all act (MCHost), with all their faults.                     *)
(***************************************************************************)
EXTENDS MCHost, HostProofs, CommandProofs, StorageProofs

(* In the part that is checked, the component's own steps are taken.       *)
LEMMA HostParts ==
  Spec => /\ StorageSpec /\ SchedulerSpec /\ HelperSpec /\ ResourceSpec /\ StartSpec
          /\ ReleaseSpec /\ BrowserSpec /\ ReportSpec /\ RecordsSpec /\ AccountSpec
<1>1. HostInit =>
        /\ StorageInit /\ SchedulerInit /\ HelperInit /\ ResourceInit /\ StartInit
        /\ ReleaseInit /\ BrowserInit /\ ReportInit /\ RecordsInit /\ AccountInit
  BY DEF HostInit
<1>2. [Next]_hostVars =>
        /\ [StorageNext]_storageVars /\ [SchedulerNext]_schedulerVars
        /\ [HelperNext]_helperVars /\ [ResourceNext]_resourceVars
        /\ [StartNext]_startVars /\ [ReleaseNext]_releaseVars
        /\ [BrowserNext]_browserVars /\ [ReportNext]_reportVars
        /\ [RecordsNext]_recordVars /\ [AccountNext]_accountVars
  BY DEF Next, Others, hostVars
<1> QED
  BY <1>1, <1>2, PTL
     DEF Spec, StorageSpec, SchedulerSpec, HelperSpec, ResourceSpec, StartSpec,
         ReleaseSpec, BrowserSpec, ReportSpec, RecordsSpec, AccountSpec

(* Whatever a host does, with every fault of the modules, each component   *)
(* keeps its values within their bounds.                                   *)
THEOREM HostTyped == Spec => []HostTypeOK
<1>1. StorageSpec => []StorageTypeOK
  <2>1. PoolAlways => StorageTypeOK
    <3> SUFFICES ASSUME PoolTypes PROVE StorageTypeOK
      BY DEF PoolAlways
    <3>1. /\ run.todo \in Seq(Steps)
          /\ run.kind \in {"idle", "provision", "open"} \cup ClearKinds
      BY DEF PoolTypes
    <3>2. \A i \in DOMAIN run.todo : run.todo[i] \in Steps
      BY <3>1, LenProperties
    <3> QED
      BY <3>1, <3>2 DEF PoolTypes, StorageTypeOK, ClearKinds
  <2> QED
    BY <2>1, PoolInvariant, PTL
<1>2. SchedulerSpec => []SchedulerTypeOK
  <2>1. ScInv => SchedulerTypeOK
    BY DEF ScInv
  <2> QED
    BY <2>1, SchedulerAlways, PTL
<1>3. HelperSpec => []HelperTypeOK
  <2>1. HlInv => HelperTypeOK
    BY DEF HlInv
  <2> QED
    BY <2>1, HelpersAlways, PTL
<1>4. ResourceSpec => []ResourceTypeOK
  <2>1. RInv /\ Selects => ResourceTypeOK
    <3> SUFFICES ASSUME ResTyped, Selects PROVE ResourceTypeOK
      BY DEF RInv
    <3>1. owner.seen \in Looks /\ {owner.inventory, owner.stopped} \subseteq Inventories
      BY DEF ResTyped, Owners
    <3>2. DOMAIN owner.seen \subseteq Observations
      BY <3>1 DEF Looks
    <3>3. \A i \in {owner.inventory, owner.stopped} :
            i.space_id \in Spaces /\ i.of \subseteq Objects
      BY <3>1 DEF Inventories
    <3>4. /\ docker.present \subseteq Objects /\ docker.env \in Spaces
          /\ docker.running \subseteq docker.present \cap Containers
      BY DEF ResTyped, Selects
    <3>5. /\ owner.todo \subseteq owner.stopped.of
          /\ \A l \in DOMAIN owner.seen : owner.seen[l] \subseteq Selected[l]
      BY DEF Selects, Selecting
    <3>6. /\ owner.kind \in Kinds \cup {"none"} /\ owner.round \in 0 .. 3
          /\ owner.end \in {"none", "done", "failed"}
          /\ owner.pc \in {"idle", "inspect", "ask", "stopTeam", "stopRest",
                           "snapshot", "clear", "remove"}
      BY DEF ResTyped, Owners
    <3> QED
      BY <3>2, <3>3, <3>4, <3>5, <3>6 DEF ResourceTypeOK
  <2>2. RInv /\ Selects /\ [ResourceNext]_resourceVars => Selects'
    BY SelectsKept
  <2>3. ResourceInit => Selects
    BY SelectsInitially
  <2> QED
    BY <2>1, <2>2, <2>3, ResourceInvariant, PTL DEF ResourceSpec
<1>5. StartSpec => []StartTypeOK
  <2>1. StInv => StartTypeOK
    BY DEF StInv, StartTyped, StartTypeOK, Grounds, Starts
  <2> QED
    BY <2>1, StartInvariant, PTL
<1>6. ReleaseSpec => []ReleaseTypeOK
  <2>1. RlInv => ReleaseTypeOK
    <3> SUFFICES ASSUME images \in ImageStores, pick \in Picks PROVE ReleaseTypeOK
      BY DEF RlInv
    <3>1. images.stable \in Sets \cup {NoSet}
      BY DEF ImageStores, Published
    <3> QED
      BY <3>1 DEF ReleaseTypeOK, ImageStores, Picks
  <2> QED
    BY <2>1, ReleaseAlways, PTL
<1>7. BrowserSpec => []BrowserTypeOK
  <2>1. BrInv => BrowserTypeOK
    BY DEF BrInv
  <2> QED
    BY <2>1, BrowserAlways, PTL
<1>8. ReportSpec => []ReportTypeOK
  <2>1. RpInv => ReportTypeOK
    <3> SUFFICES ASSUME space \in InstalledSpaces, report \in Reports PROVE ReportTypeOK
      BY DEF RpInv
    <3>1. DOMAIN report.seen \subseteq Components
      BY DEF Reports, Observation
    <3> QED
      BY <3>1 DEF ReportTypeOK, InstalledSpaces, Reports
  <2> QED
    BY <2>1, ReportStarts, ReportKept, PTL DEF ReportSpec
<1>9. RecordsSpec => []RecordsTypeOK
  <2>1. RecInv => RecordsTypeOK
    BY DEF RecInv, RecordsTypeOK, Lasting, Directories, Call, Pcs
  <2> QED
    BY <2>1, Invariance, PTL
<1>10. AccountSpec => []AccountTypeOK
  <2>1. AcInv => AccountTypeOK
    BY DEF AcInv
  <2> QED
    BY <2>1, AccountAlways, PTL
<1>11. ASSUME StorageTypeOK, SchedulerTypeOK, HelperTypeOK, ResourceTypeOK, StartTypeOK,
              ReleaseTypeOK, BrowserTypeOK, ReportTypeOK, RecordsTypeOK, AccountTypeOK
       PROVE  HostTypeOK
  BY <1>11 DEF HostTypeOK
<1> QED
  BY <1>1, <1>2, <1>3, <1>4, <1>5, <1>6, <1>7, <1>8, <1>9, <1>10, <1>11, HostParts, PTL
===============================================================================
