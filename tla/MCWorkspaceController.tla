----------------------- MODULE MCWorkspaceController -----------------------
EXTENDS WorkspaceController

\* A quota, which is optional, and a HelmRepository, whose reference is observed.
MCOrder == <<"helm", "quota">>
MCOneKind == <<"helm">>

\* The quota is set, removed and set again; the repository changes once.
MCWants == << [helm |-> "h1", quota |-> "q1"],
              [helm |-> "h2", quota |-> "none"],
              [helm |-> "h2", quota |-> "q1"] >>
MCOneWants == << [helm |-> "h1"], [helm |-> "h2"] >>

MCQuiet == [fail |-> 0, crash |-> 0, drift |-> 0]
MCCrash == [fail |-> 1, crash |-> 1, drift |-> 0]
MCBusy == [fail |-> 1, crash |-> 1, drift |-> 1]
=============================================================================
