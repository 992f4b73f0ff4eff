-------------------------- MODULE MCMailShadowRuns --------------------------
(***************************************************************************)
(* MailShadow with the history of its runs, on the instances of            *)
(* MCMailShadow.                                                           *)
(***************************************************************************)
EXTENDS MCMailShadow, MailShadowRuns
=============================================================================
