-------------------------------- MODULE MCHost --------------------------------
(***************************************************************************)
(* Small instances of StoragePool, SchedulerEntries, DockerHelpers,        *)
(* OwnedResources, MemberStart, ReleaseResolution, BrowserRuntime,          *)
(* StatusReport, PrivateRecords and Account.  What they keep is disjoint:   *)
(* one model checks each of them in its own part of the state graph, chosen *)
(* by the initial state, and so adds their states instead of multiplying    *)
(* them.                                                                   *)
(***************************************************************************)
EXTENDS StoragePool, SchedulerEntries, DockerHelpers, OwnedResources,
        MemberStart, ReleaseResolution, BrowserRuntime, StatusReport,
        PrivateRecords, Account, TLC

CONSTANTS p1, p2, as1, as2

MCProcesses  == {p1, p2}
MCAssistants == {as1, as2}
MCSymmetry   == Permutations(MCProcesses)

MCChanges == {{"admin"}, Service}

(* Two releases, one whose document is not the signed one, and a build of   *)
(* this host.                                                              *)
Published1(n) == [ schema |-> "published", ordinal |-> n, issued |-> n,
                   expires |-> n + 1, members |-> "published" ]

MCSets == {"one", "two", "altered", "dev"}

MCCarries ==
  LET image(d, signed, e) == [document |-> d, epoch |-> e, signature |-> <<signed, 2>>]
      built == [Published1(2) EXCEPT !.schema = "developer", !.members = "local"]
  IN [ one     |-> [image(Published1(1), Published1(1), 1) EXCEPT !.signature[2] = 1],
       two     |-> image(Published1(2), Published1(2), 2),
       altered |-> image(Published1(2), Published1(2), 1),
       dev     |-> image(built, Published1(1), 1) ]

VARIABLE part

hostVars == <<storageVars, schedulerVars, helperVars, resourceVars, startVars,
              releaseVars, browserVars, reportVars, recordVars, accountVars, part>>

Parts == {"storage", "scheduler", "helpers", "resources", "members", "release",
          "browser", "report", "records", "account"}

(* A part that is not checked begins in one way.                           *)
HostInit ==
  /\ part \in Parts
  /\ StorageInit
  /\ SchedulerInit
  /\ part # "scheduler" =>
       Fresh /\ entries.profile = "systemd" /\ entries.booted
             /\ \A u \in AllUnits : entries.at[u] = "absent"
  /\ HelperInit
  /\ part # "helpers" => wipe.box = "none"
  /\ ResourceInit
  /\ part # "resources" =>
       docker.env = "this" /\ docker.present = OfThisSpace \ ({"teamnet"} \cup Assistants)
  /\ StartInit
  /\ part # "members" =>
       ground.changed = Service /\ ground.reads /\ ground.reaches
  /\ ReleaseInit
  /\ part # "release" => images.stable = NoSet /\ images.held = {} /\ ~images.mac
                           /\ images.copy = NoSet
  /\ BrowserInit
  /\ part # "browser" => browser.admin = "none" /\ browser.network = "none"
  /\ ReportInit
  /\ part # "report" =>
       /\ space.at = [c \in Components |-> InOrder(c)]
       /\ space.detached = {} /\ space.current /\ space.marked /\ ~space.stop
  /\ RecordsInit
  /\ part # "records" =>
       file.kind = "stopped" /\ file.path.value = "absent" /\ file.tmp.state = "none"
  /\ AccountInit

Others(name) ==
  /\ UNCHANGED part
  /\ name = "storage"    \/ UNCHANGED storageVars
  /\ name = "scheduler"  \/ UNCHANGED schedulerVars
  /\ name = "helpers"    \/ UNCHANGED helperVars
  /\ name = "resources"  \/ UNCHANGED resourceVars
  /\ name = "members"    \/ UNCHANGED startVars
  /\ name = "release"    \/ UNCHANGED releaseVars
  /\ name = "browser"    \/ UNCHANGED browserVars
  /\ name = "report"     \/ UNCHANGED reportVars
  /\ name = "records"    \/ UNCHANGED recordVars
  /\ name = "account"    \/ UNCHANGED accountVars

Next ==
  \/ part = "storage"    /\ StorageNext    /\ Others(part)
  \/ part = "scheduler"  /\ SchedulerNext  /\ Others(part)
  \/ part = "helpers"    /\ HelperNext     /\ Others(part)
  \/ part = "resources"  /\ ResourceNext   /\ Others(part)
  \/ part = "members"    /\ StartNext      /\ Others(part)
  \/ part = "release"    /\ ReleaseNext    /\ Others(part)
  \/ part = "browser"    /\ BrowserNext    /\ Others(part)
  \/ part = "report"     /\ ReportNext     /\ Others(part)
  \/ part = "records"    /\ RecordsNext    /\ Others(part)
  \/ part = "account"    /\ AccountNext    /\ Others(part)

Spec == HostInit /\ [][Next]_hostVars

(* The type invariant of the ten components.                               *)
HostTypeOK ==
  /\ part = "storage"    => StorageTypeOK
  /\ part = "scheduler"  => SchedulerTypeOK
  /\ part = "helpers"    => HelperTypeOK
  /\ part = "resources"  => ResourceTypeOK
  /\ part = "members"    => StartTypeOK
  /\ part = "release"    => ReleaseTypeOK
  /\ part = "browser"    => BrowserTypeOK
  /\ part = "report"     => ReportTypeOK
  /\ part = "records"    => RecordsTypeOK
  /\ part = "account"    => AccountTypeOK
===============================================================================
