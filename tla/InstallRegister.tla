---------------------------- MODULE InstallRegister ----------------------------
(***************************************************************************)
(* What the skill installer promises about one host's skill root: the two  *)
(* skills are one installation, which is replaced in one step and only by  *)
(* the same or a newer version from the same package root.  A folder that  *)
(* somebody else has changed ends the installer's authority.               *)
(***************************************************************************)
EXTENDS Integers

CONSTANTS Packages,  \* records with a root and a version
          Absent,    \* nothing is installed
          Foreign    \* a skill folder is not the installer's any more

VARIABLE installed

Init == installed = Absent

\* A package may take the place of an installation.
MayReplace(old, new) ==
  old # Absent =>
    /\ old \in Packages
    /\ old.root = new.root
    /\ old.version <= new.version

Install(package) ==
  /\ MayReplace(installed, package)
  /\ installed' = package

Change == installed' = Foreign

Next == (\E package \in Packages : Install(package)) \/ Change

RegisterSpec == Init /\ [][Next]_installed
=============================================================================
