-------------------------- MODULE MCSpaceMigration --------------------------
(* Instances of SpaceMigration for TLC. *)
EXTENDS SpaceMigration

\* Anywhere before the commit that rebinds the space.
BeforeSwitch == PreSwitch \cup {"proof", "restore"}
\* Only behind the commit that binds it to the target.
AfterSwitch == PostSwitch
=============================================================================
