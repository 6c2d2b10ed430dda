---------------------------- MODULE SetupScripts ----------------------------
(***************************************************************************)
(* The two commands under tools/ that write to other people's services.    *)
(* They share a header - re-run me, rehearse me with --dry-run - and no    *)
(* state, so a behaviour follows one of them.                              *)
(***************************************************************************)
EXTENDS StripeSetup, EmailSetup

VARIABLE command  \* "stripe" or "email"

setupVars == <<billingVars, emailVars, command>>

SetupInit ==
    /\ BillingInit
    /\ EmailInit
    /\ command \in {"stripe", "email"}

SetupNext ==
    /\ UNCHANGED command
    /\ \/ command = "stripe" /\ BillingNext /\ UNCHANGED emailVars
       \/ command = "email" /\ EmailNext /\ UNCHANGED billingVars

SetupSpec == SetupInit /\ [][SetupNext]_setupVars

\* The state of both commands and of the services they write to.
SetupOK == BillingTypeOK /\ EmailTypeOK

=============================================================================
