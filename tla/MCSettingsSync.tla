--------------------------- MODULE MCSettingsSync ---------------------------
(* Instance of SettingsSync for TLC: two machines share one of two groups;   *)
(* the user of the first also switches a group and the sync itself.          *)
EXTENDS SettingsSync, TLC

CONSTANTS m1, m2, app, remote

\* The group that is switched is one the other machine does not have, or the
\* shared one, which is written back over an await.
SharedGroups == {m1 :> {app, remote} @@ m2 :> {app},
                 m1 :> {remote} @@ m2 :> {remote}}
Switched == m1 :> {remote} @@ m2 :> {}
=============================================================================
