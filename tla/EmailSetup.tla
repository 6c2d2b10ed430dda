---------------------------- MODULE EmailSetup ----------------------------
(***************************************************************************)
(* tools/email-setup.ts: one command that stands up sending mail - the     *)
(* domain at Resend, its records at Porkbun, one SPF record at the root of *)
(* the zone, a key that may only send, and Supabase's SMTP settings.  The  *)
(* zone is read once and written from that reading, while a control panel  *)
(* is open in another tab; any request may fail, and the way to resume is  *)
(* to run the command again.                                               *)
(***************************************************************************)
EXTENDS Naturals, FiniteSets

CONSTANTS
    Providers,   \* others that may send for the domain
    MaxPanel,    \* bound: changes made in the control panel
    MaxEmailRuns,\* bound: runs of the command
    Nothing

VARIABLES
    zone,      \* at Porkbun: the SPF records at the root
    records,   \* at Porkbun: the other records
    domain,    \* at Resend: "none", "pending" or "verified"
    keys,      \* at Resend: the sending keys that are live
    smtp,      \* at Supabase: the key mail is sent with
    deployed,  \* at Vercel: the key of each target
    job,       \* the run in progress
    meant,     \* history: who was given leave to send, and not deprived of it by hand
    raced,     \* history: of those, who was last given it where a run writes
    early,     \* history: the key in use was revoked, for a newer that was not yet
    spf,       \* history: "written" when a run went through the zone undisturbed
    counts     \* history: panel changes, runs, keys so far

dns == <<zone, records>>
services == <<domain, keys, smtp, deployed>>
owners == <<meant, raced, early>>
emailVars == <<dns, services, job, owners, spf, counts>>

Targets == {"preview", "production"}
Resend == [senders |-> {"resend"}, all |-> "~all"]
ResendRecords == {"mx", "dkim", "spf of send"}

\* One SPF record of the zone: who may send, and the qualifier of the rest.
SpfRecord == [id : Nat, senders : SUBSET (Providers \cup {"resend"}), all : {"~all", "-all"}]

Off == [at |-> "idle", dry |-> FALSE, merge |-> FALSE, zone |-> {}, records |-> {},
        key |-> Nothing, pushed |-> {}]

Stages == {"idle", "domain", "read", "edit", "delete", "records", "verify",
           "mint", "smtp", "vercel"}

EmailTypeOK ==
    /\ zone \subseteq SpfRecord
    /\ records \subseteq ResendRecords \cup {"dmarc"}
    /\ domain \in {"none", "pending", "verified"}
    /\ keys \subseteq Nat
    /\ smtp \in Nat \cup {Nothing}
    /\ deployed \in [Targets -> Nat \cup {Nothing}]
    /\ job \in [at : Stages, dry : BOOLEAN, merge : BOOLEAN, zone : SUBSET SpfRecord,
                 records : SUBSET (ResendRecords \cup {"dmarc"}),
                 key : Nat \cup {Nothing}, pushed : SUBSET Targets]
    /\ meant \subseteq Providers /\ raced \subseteq Providers
    /\ early \in BOOLEAN
    /\ spf \in {"touched", "read", "written"}
    /\ counts \in [panel : Nat, runs : Nat, keys : Nat]

-----------------------------------------------------------------------------
StartEmail(dry, merge) ==
    /\ job.at = "idle"
    /\ counts.runs < MaxEmailRuns
    /\ counts' = [counts EXCEPT !.runs = @ + 1]
    /\ job' = [Off EXCEPT !.at = "domain", !.dry = dry, !.merge = merge]
    /\ UNCHANGED <<dns, services, owners, spf>>

\* A dry run cannot go on without the records Resend would give.
EnsureResendDomain ==
    /\ job.at = "domain"
    /\ IF domain = "none" /\ job.dry
       THEN job' = Off /\ UNCHANGED domain
       ELSE /\ domain' = IF domain = "none" THEN "pending" ELSE domain
            /\ job' = [job EXCEPT !.at = "read"]
    /\ UNCHANGED <<dns, keys, smtp, deployed, owners, spf, counts>>

SendersOf(found) == UNION {record.senders : record \in found}

\* mergeSpf, one record after the other: everybody's senders, once each, and the
\* qualifier of the first.
MergeSpf(existing, incoming) ==
    [senders |-> existing.senders \cup SendersOf(incoming),
     all |-> existing.all]

Content(record) == [senders |-> record.senders, all |-> record.all]

\* The reduction starts from Resend's own.
Merged(found) == MergeSpf(Resend, found)

AlreadyMerged(found) ==
    \E record \in found : found = {record} /\ Content(record) = Merged(found)

\* Two SPF records are worse than one that is wrong: without --merge-spf the
\* command stops here.
ReadZone ==
    /\ job.at = "read"
    /\ LET next == IF zone = {} \/ AlreadyMerged(zone) THEN "records"
                   ELSE IF ~job.merge THEN "idle"
                   ELSE IF job.dry THEN "records"
                   ELSE "edit"
       IN  /\ job' = IF next = "idle" THEN Off
                     ELSE [job EXCEPT !.at = next, !.zone = zone, !.records = records]
           /\ spf' = IF next = "idle" \/ job.dry THEN spf ELSE "read"
    /\ raced' = raced \ SendersOf(zone)
    /\ UNCHANGED <<dns, services, meant, early, counts>>

\* Mutant: every TXT record at the root, by name and type.
ByName(surplus) == {}

Without(surplus) == {r \in zone : r.id # surplus.id}
Listed(id) == \E r \in zone : r.id = id

\* By record id: another TXT record at the root is another record, and one that
\* was edited in the meantime is the same.  The survivor is the first of Porkbun's
\* answer, whose order is nobody's promise; when it is gone, the command ends.
EditSurvivor ==
    /\ job.at = "edit"
    /\ \E survivor \in job.zone :
        IF Listed(survivor.id)
        THEN /\ zone' = Without(survivor) \cup
                  {[id |-> survivor.id, senders |-> Merged(job.zone).senders,
                    all |-> Merged(job.zone).all]}
             /\ job' = [job EXCEPT !.at = "delete", !.zone = @ \ {survivor}]
        ELSE job' = Off /\ UNCHANGED zone
    /\ UNCHANGED <<records, services, owners, spf, counts>>

DeleteSurplus ==
    /\ job.at = "delete"
    /\ \/ job.zone = {} /\ job' = [job EXCEPT !.at = "records"] /\ UNCHANGED zone
       \/ \E surplus \in job.zone :
            /\ zone' = Without(surplus)
            /\ job' = IF Listed(surplus.id) THEN [job EXCEPT !.zone = @ \ {surplus}] ELSE Off
    /\ UNCHANGED <<records, services, owners, spf, counts>>

\* `dryRun` goes with the request.
Creates(record) == records' = IF job.dry THEN records ELSE records \cup {record}

\* Those that were there when the zone was read are left alone.
CreateRecord(record) ==
    /\ job.at = "records"
    /\ record \in ResendRecords \ job.records
    /\ Creates(record)
    /\ job' = [job EXCEPT !.records = @ \cup {record}]
    /\ UNCHANGED <<zone, services, owners, spf, counts>>

EnsureDmarc ==
    /\ job.at = "records"
    /\ ResendRecords \subseteq job.records
    /\ records' = IF job.dry THEN records ELSE records \cup {"dmarc"}
    /\ spf' = IF spf = "read" /\ ~job.dry THEN "written" ELSE spf
    /\ job' = [job EXCEPT !.at = IF job.dry THEN "mint" ELSE "verify"]
    /\ UNCHANGED <<zone, services, owners, counts>>

\* Mutant: five minutes are enough.
AssumedVerified == TRUE

\* Twenty looks in five minutes; without an answer the run ends here.
Verified == domain' = "verified"

WaitForVerification ==
    /\ job.at = "verify"
    /\ \/ ResendRecords \subseteq records /\ domain' = "verified"
       \/ UNCHANGED domain
    /\ job' = IF Verified THEN [job EXCEPT !.at = "mint"] ELSE Off
    /\ UNCHANGED <<dns, keys, smtp, deployed, owners, spf, counts>>

\* A key is shown once, so every run that comes here makes another.
CreateSendKey ==
    /\ job.at = "mint"
    /\ IF job.dry
       THEN UNCHANGED <<keys, counts>> /\ job' = [job EXCEPT !.at = "smtp"]
       ELSE LET key == counts.keys + 1
            IN  /\ keys' = keys \cup {key}
                /\ counts' = [counts EXCEPT !.keys = key]
                /\ job' = [job EXCEPT !.at = "smtp", !.key = key]
    /\ UNCHANGED <<dns, domain, smtp, deployed, owners, spf>>

ConfigureSupabaseSmtp ==
    /\ job.at = "smtp"
    /\ smtp' = IF job.dry THEN smtp ELSE job.key
    /\ early' = (early /\ job.dry)
    /\ job' = [job EXCEPT !.at = "vercel"]
    /\ UNCHANGED <<dns, domain, keys, deployed, meant, raced, spf, counts>>

\* One target after the other; a failure is a warning.
PushVercelEnv(target) ==
    /\ job.at = "vercel"
    /\ target \notin job.pushed
    /\ ~job.dry
    /\ deployed' \in {deployed, [deployed EXCEPT ![target] = job.key]}
    /\ job' = [job EXCEPT !.pushed = @ \cup {target}]
    /\ UNCHANGED <<dns, domain, keys, smtp, owners, spf, counts>>

FinishEmail ==
    /\ job.at = "vercel"
    /\ job.dry \/ job.pushed = Targets
    /\ job' = Off
    /\ UNCHANGED <<dns, services, owners, spf, counts>>

StopEmail ==
    /\ job.at # "idle"
    /\ job' = Off
    /\ UNCHANGED <<dns, services, owners, spf, counts>>

-----------------------------------------------------------------------------
(* The control panel, open in another tab while the command runs or not    *)

\* Whose leave no run can undo from here: it is in a record the run in progress
\* leaves alone, or in what that read and has yet to write.
OutOfReach(found) ==
    LET inHand == IF job.at \in {"edit", "delete"} THEN job.zone ELSE {}
    IN  SendersOf({r \in found : \A q \in inHand : q.id # r.id})
          \cup (IF job.at = "edit" THEN SendersOf(inHand) ELSE {})

InThePanel(found) ==
    /\ counts.panel < MaxPanel
    /\ counts' = [counts EXCEPT !.panel = @ + 1]
    /\ zone' = found
    /\ raced' = meant' \ OutOfReach(found)
    /\ spf' = "touched"
    /\ UNCHANGED <<records, services, early, job>>

\* A provider's wizard adds its own record to the zone.
WizardAdds(provider, all) ==
    /\ meant' = meant \cup {provider}
    /\ InThePanel(zone \cup {[id |-> counts.panel + 1, senders |-> {provider}, all |-> all]})

\* It adds itself to a record that is there.
WizardEdits(provider, r) ==
    /\ provider \notin r.senders
    /\ meant' = meant \cup {provider}
    /\ InThePanel((zone \ {r}) \cup {[r EXCEPT !.senders = @ \cup {provider}]})

\* A record is deleted, and with it the leave of whoever is in no other.
RecordDeleted(r) ==
    /\ meant' = meant \ (r.senders \ SendersOf(zone \ {r}))
    /\ InThePanel(zone \ {r})

\* "Only the newest is in use - revoke the rest", as the command says when it has
\* made a key, which is before it puts that key to use, if it comes to that.
RevokeOldKeys ==
    /\ Cardinality(keys) > 1
    /\ keys' = keys \cap {counts.keys}
    /\ early' = (early \/ smtp \in keys \ {counts.keys})
    /\ UNCHANGED <<dns, domain, smtp, deployed, job, meant, raced, spf, counts>>

EmailInit ==
    /\ zone = {}
    /\ records = {}
    /\ domain = "none"
    /\ keys = {}
    /\ smtp = Nothing
    /\ deployed = [target \in Targets |-> Nothing]
    /\ job = Off
    /\ meant = {} /\ raced = {}
    /\ early = FALSE
    /\ spf = "touched"
    /\ counts = [panel |-> 0, runs |-> 0, keys |-> 0]

EmailNext ==
    \/ \E dry, merge \in BOOLEAN : StartEmail(dry, merge)
    \/ EnsureResendDomain
    \/ ReadZone \/ EditSurvivor \/ DeleteSurplus
    \/ \E record \in ResendRecords : CreateRecord(record)
    \/ EnsureDmarc
    \/ WaitForVerification
    \/ CreateSendKey
    \/ ConfigureSupabaseSmtp
    \/ \E target \in Targets : PushVercelEnv(target)
    \/ FinishEmail
    \/ StopEmail
    \/ \E provider \in Providers, all \in {"~all", "-all"} : WizardAdds(provider, all)
    \/ \E r \in zone : RecordDeleted(r) \/ \E provider \in Providers : WizardEdits(provider, r)
    \/ RevokeOldKeys

-----------------------------------------------------------------------------
(* Properties *)

\* Whoever was given leave to send for the domain keeps it, wherever the command
\* dies and whatever another tab does to the zone it read a moment ago - unless it
\* was given in a record the run then wrote over or deleted, in the window the
\* command's own header warns of.
NoSenderLost ==
    \A provider \in meant \ raced : provider \in SendersOf(zone)

\* A run that went through the zone undisturbed leaves at most one SPF record,
\* and Resend in it: two are a permerror, which no receiver reports.
OneSpfRecord ==
    spf = "written" =>
        Cardinality(zone) <= 1 /\ \A r \in zone : "resend" \in r.senders

\* Supabase is never told to send through a domain Resend would bounce, nor with
\* a key that is no longer good, unless that was revoked as the command advises
\* before a run put a newer one to use.
MailKeepsSending ==
    smtp # Nothing => domain = "verified" /\ (smtp \in keys \/ early)

\* Runs that die anywhere, over a zone and a panel other people edit too, never
\* leave the domain unable to send.
MailSetUp == NoSenderLost /\ OneSpfRecord /\ MailKeepsSending

=============================================================================
