-------------------------- MODULE MCSkillInstaller ---------------------------
(* A small instance of SkillInstaller: two package roots with two versions. *)
EXTENDS SkillInstaller
=============================================================================
