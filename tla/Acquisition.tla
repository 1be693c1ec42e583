------------------------------ MODULE Acquisition ------------------------------
(***************************************************************************)
(* What the data collection promises to its callers: a request for a site  *)
(* is answered once, when every domain has its value; a value called fresh *)
(* was obtained for that site and is remembered; a value called kept is    *)
(* one that the same connector once obtained, perhaps for another site;    *)
(* otherwise the domain has default values, or none.                       *)
(***************************************************************************)
EXTENDS Naturals

CONSTANTS Requests, Sites, Times

VARIABLES
    domains,   \* the domains every request collects
    known,     \* what was ever obtained: <<domain, site, time>>
    phase,     \* [Requests -> {"idle", "fetching", "answered", "lost"}]
    asked,     \* the site of a request
    value      \* value[r][d], for the domains that have one

acqVars == <<domains, known, phase, asked, value>>

Nothing == [kind |-> "none"]
Values ==
    [kind : {"fresh", "kept"}, site : Sites, at : Times] \cup {[kind |-> "default"], Nothing}

(* fetch_all calls every connector of the list.                             *)
AcqInit ==
    /\ known \subseteq (domains \X Sites \X Times)
    /\ phase = [r \in Requests |-> "idle"]
    /\ asked = [r \in Requests |-> 0]
    /\ value = [r \in Requests |-> [d \in {} |-> Nothing]]

Begin(r) ==
    /\ phase[r] = "idle"
    /\ \E s \in Sites : asked' = [asked EXCEPT ![r] = s]
    /\ phase' = [phase EXCEPT ![r] = "fetching"]
    /\ UNCHANGED <<domains, known, value>>

(* Something is obtained for the site of the request.                       *)
Learn(r, d) == \E t \in Times : known' = known \cup {<<d, asked[r], t>>}

(* A domain gets its value, at most once.                                   *)
Fill(r) ==
    /\ phase[r] = "fetching"
    /\ \E d \in domains \ DOMAIN value[r] : \E v \in Values :
        /\ known' = known \/ Learn(r, d)
        /\ v.kind = "fresh" => v.site = asked[r]
        /\ v.kind \in {"fresh", "kept"} => <<d, v.site, v.at>> \in known'
        /\ value' = [value EXCEPT ![r] =
                        [e \in DOMAIN value[r] \cup {d} |-> IF e = d THEN v ELSE value[r][e]]]
    /\ UNCHANGED <<domains, phase, asked>>

(* What was obtained could not be stored whole, and another source is asked. *)
Discard(r) ==
    /\ phase[r] = "fetching"
    /\ \E d \in domains : Learn(r, d)
    /\ UNCHANGED <<domains, phase, asked, value>>

Publish(r) ==
    /\ phase[r] = "fetching" /\ DOMAIN value[r] = domains
    /\ phase' = [phase EXCEPT ![r] = "answered"]
    /\ UNCHANGED <<domains, known, asked, value>>

(* A crash loses the requests that are not answered, and may leave one value
   obtained that nobody was given.                                          *)
Lose ==
    /\ phase' = [r \in Requests |-> IF phase[r] = "fetching" THEN "lost" ELSE phase[r]]
    /\ known' = known \/ \E r \in Requests, d \in domains : phase[r] = "fetching" /\ Learn(r, d)
    /\ UNCHANGED <<domains, asked, value>>

AcqNext == Lose \/ (\E r \in Requests : Begin(r) \/ Fill(r) \/ Discard(r) \/ Publish(r))

AcqSpec == AcqInit /\ [][AcqNext]_acqVars
=============================================================================
