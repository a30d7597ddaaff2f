------------------------------- MODULE ScreensMC -------------------------------
(***************************************************************************)
(* The screens for TLC: one task of the board has a step.                  *)
(***************************************************************************)
EXTENDS Screens, TLC

CONSTANTS Task1, Step1

OneStep == Step1 :> Task1
=============================================================================
