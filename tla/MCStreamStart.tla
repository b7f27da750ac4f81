--------------------------- MODULE MCStreamStart ---------------------------
(* Configurations and account responses for the runs of StreamStart.        *)
EXTENDS StreamStart

Account(p, ds) == [strict |-> FALSE, password |-> p,
                   devices |-> <<[uid |-> Own, password |-> p]>> \o ds]
Manual(p) == [strict |-> TRUE, password |-> p, devices |-> <<>>]
Dev(u, p) == [uid |-> u, password |-> p]

\* The account may name no password, an empty one, the fallback or another for
\* the camera; two other devices share it, share one, or differ; or the
\* password is configured, the empty one too.
MCAccounts ==
    { Account(Absent, <<Dev("c2", "q"), Dev("c3", "q")>>),
      Account(Empty, <<Dev("c2", Absent), Dev("c3", "p")>>),
      Account(Fallback, <<Dev("c2", "p"), Dev("c3", Empty)>>),
      Account("p", <<Dev("c2", "q"), Dev("c3", "p")>>),
      Account("q", <<Dev("c2", "p"), Dev("c3", Fallback)>>),
      Manual("p"), Manual(Empty) }

MCPasswords == {Empty, Fallback, "p", "q"}

=============================================================================
