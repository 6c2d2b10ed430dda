------------------------------ MODULE Services ------------------------------
(***************************************************************************)
(* What asks other people's services to do something: the buttons of the   *)
(* plan page, and the commands under tools/.  The page deals with one      *)
(* workspace's subscription, the commands with what is on sale and with    *)
(* mail; nothing passes between them, so a behaviour follows one.          *)
(***************************************************************************)
EXTENDS PlanPage, SetupScripts

VARIABLE asker  \* the "page" or a "command"

servicesVars == <<vars, setupVars, asker>>

\* What is not followed begins in one state.
ServicesInit ==
    /\ Init
    /\ SetupInit
    /\ asker \in {"page", "command"}
    /\ asker = "page" => command = "email"
    /\ command = "email" => catalog = CHOOSE first \in [Intervals -> Amounts] : TRUE

ServicesNext ==
    /\ UNCHANGED asker
    /\ \/ asker = "page" /\ Next /\ UNCHANGED setupVars
       \/ asker = "command" /\ SetupNext /\ UNCHANGED vars

ServicesSpec == ServicesInit /\ [][ServicesNext]_servicesVars

=============================================================================
