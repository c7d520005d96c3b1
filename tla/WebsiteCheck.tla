----------------------------- MODULE WebsiteCheck ------------------------------
(***************************************************************************)
(* The combined website check of the public tools (tools_service.go): the  *)
(* header, TLS and email checks run at once under one deadline, and the    *)
(* answer is put together when all three have ended.                       *)
(*                                                                         *)
(* Each check is a sequence of outbound operations, and any operation may  *)
(* fail or run into a timeout whatever the site is like; the checks go on  *)
(* with what they have, so an answer mixes facts of the site with facts    *)
(* that were missed.  What is modelled of a site is what the grades tell   *)
(* apart: protocol versions, the certificate's chain and expiry, and the   *)
(* verdicts its headers get.                                               *)
(***************************************************************************)
EXTENDS Integers, FiniteSets

CONSTANTS
  Offers,       \* protocol versions a site may accept: sets of 10, 11, 12, 13
  Hours,        \* until its certificate expires, rounded towards the past
  MaxFlaws,     \* bound: headers of a page that do not pass
  MaxRedirects, \* maxHeaderCheckRedirects
  Deadline,     \* toolsCheckTimeout
  OpTimeout     \* headerCheckTimeout, tlsCheckTimeout

ASSUME OffersAssumption == Offers \subseteq SUBSET {10, 11, 12, 13}
ASSUME HoursAssumption == Hours \subseteq Int /\ -1 \in Hours
ASSUME BoundAssumption ==
  /\ MaxFlaws \in Nat /\ MaxRedirects \in Nat
  /\ Deadline \in Nat \ {0} /\ OpTimeout \in Nat \ {0}

VARIABLES
  site,     \* the site: what it accepts, whether its chain is trusted, its expiry
  headers,  \* the header check: step, redirects followed, what it found
  tls,      \* the TLS check: step, facts so far
  email,    \* the email check: step, records found
  began,    \* when the operation of each check began
  now,      \* ticks since the request
  missed,   \* history: whether a TLS probe failed though the site accepts its version
  answer

vars == <<site, headers, tls, email, began, now, missed, answer>>

Check == {"headers", "tls", "email"}

--------------------------------------------------------------------------------
(* Grades *)

LetterGradeFromPercent(pct) ==
  CASE pct >= 90 -> "A" [] pct >= 80 -> "B" [] pct >= 70 -> "C" [] pct >= 60 -> "D"
    [] OTHER -> "F"

CheckedHeaders ==
  {"Content-Security-Policy", "Strict-Transport-Security", "X-Frame-Options",
   "X-Content-Type-Options", "Referrer-Policy", "Permissions-Policy",
   "Cross-Origin-Opener-Policy", "Cross-Origin-Resource-Policy"}

\* What a header that is there can be given; one that is missing fails.
Verdicts(name) ==
  CASE name = "Permissions-Policy" -> {"pass"}
    [] name = "Referrer-Policy"    -> {"pass", "warn", "fail"}
    [] OTHER                       -> {"pass", "warn"}

Count(page, verdict) == Cardinality({h \in CheckedHeaders : page[h] = verdict})

Pages ==
  {page \in [CheckedHeaders -> {"pass", "warn", "fail"}] :
     /\ \A h \in CheckedHeaders : page[h] \in Verdicts(h) \cup {"fail"}
     /\ Count(page, "pass") >= Cardinality(CheckedHeaders) - MaxFlaws}

\* Mutant: max counts the headers that are there.
MaxOfPresent(passes, warns) == 2 * (passes + warns)

MaxScore(passes, warns) == 2 * Cardinality(CheckedHeaders)

GradeHeaders(page) ==
  LET passes == Count(page, "pass")
      warns  == Count(page, "warn") IN
  [passes |-> passes, warns |-> warns,
   grade  |-> LetterGradeFromPercent(((2 * passes + warns) * 100) \div MaxScore(passes, warns))]

Graded == {GradeHeaders(page) : page \in Pages}

\* int(hours / 24) rounds towards zero: expired for less than a day is 0 days left.
DaysLeft(hours) == IF hours >= 0 THEN hours \div 24 ELSE -((-hours) \div 24)

\* crypto/tls verifies the chain in every handshake, and x509 again for the grade:
\* each at its own time, against the same roots and for the same host.
ChainValid == site.trusted /\ site.hours >= 0

\* Mutant: an outdated protocol costs what it costs to accept TLS 1.0.
MildProtocolCost(version) ==
  CASE version = 13 -> 0 [] version = 12 -> 5 [] OTHER -> 25

ProtocolCost(version) ==
  CASE version = 13 -> 0 [] version = 12 -> 5 [] OTHER -> 40

ChainCost(valid) == IF valid THEN 0 ELSE 40

ExpiryCost(days) ==
  CASE days < 0 -> 60 [] days \in 0..13 -> 15 [] days \in 14..29 -> 5 [] OTHER -> 0

GradeTLS(version, tls10, tls11, valid, days) ==
  LetterGradeFromPercent(
    100 - ProtocolCost(version) - (IF tls10 THEN 25 ELSE 0) - (IF tls11 THEN 15 ELSE 0)
        - ChainCost(valid) - ExpiryCost(days))

--------------------------------------------------------------------------------
(* Outbound operations *)

\* Mutant: an operation has its own timeout, but not the request's context.
OwnTimeout(c) == began[c] + OpTimeout

\* The request's context ends every operation, and the clients of the header and
\* TLS checks have a timeout of their own.
Limit(c) == IF c = "email" \/ began[c] + OpTimeout > Deadline THEN Deadline
            ELSE began[c] + OpTimeout

InTime(c) == now < Limit(c)
Begins(c) == began' = [began EXCEPT ![c] = now]

--------------------------------------------------------------------------------
(* HeaderChecker.Check *)

Fetching == headers.step \in {"https", "http", "hop"}

FetchFails ==
  /\ Fetching
  /\ headers' = [headers EXCEPT !.step = IF @ = "https" THEN "http" ELSE "failed"]
  /\ Begins("headers")
  /\ UNCHANGED <<site, tls, email, now, missed, answer>>

\* The response has come before the fetch's limit.  Its body is discarded, and the
\* limit may be reached while it is read: that error is ignored.
Responded == Fetching /\ began["headers"] < Deadline

HeadersDone ==
  /\ Responded
  /\ \E found \in Graded : headers' = [headers EXCEPT !.step = "done", !.found = {found}]
  /\ UNCHANGED <<site, tls, email, began, now, missed, answer>>

\* Mutant: one hop too many.
MayStillFollow(hop) == hop <= MaxRedirects

MayFollow(hop) == hop < MaxRedirects

\* A redirect to the same registrable domain.
FollowRedirect ==
  /\ Responded
  /\ MayFollow(headers.hop)
  /\ headers' = [headers EXCEPT !.step = "hop", !.hop = @ + 1]
  /\ Begins("headers")
  /\ UNCHANGED <<site, tls, email, now, missed, answer>>

\* A redirect elsewhere.  After the last hop, or without a Location, a redirect is
\* graded like a page.
RefuseRedirect ==
  /\ Responded
  /\ MayFollow(headers.hop)
  /\ headers' = [headers EXCEPT !.step = "failed"]
  /\ UNCHANGED <<site, tls, email, began, now, missed, answer>>

--------------------------------------------------------------------------------
(* TLSChecker.Check *)

\* The version of a handshake: the highest both sides have.
Negotiable(min) == {v \in site.offers : v >= min}
Floor           == IF tls.step = "default" THEN 12 ELSE 10

Handshake ==
  /\ tls.step \in {"default", "weak"} /\ InTime("tls")
  /\ ChainValid
  /\ \E v \in Negotiable(Floor) :
       /\ \A w \in Negotiable(Floor) : w <= v
       /\ tls' = [tls EXCEPT !.step = "probe10", !.version = v]
  /\ Begins("tls")
  /\ UNCHANGED <<site, headers, email, now, missed, answer>>

\* The first failure is retried with a weak floor.
HandshakeFails ==
  /\ tls.step \in {"default", "weak"}
  /\ tls' = [tls EXCEPT !.step = IF @ = "default" THEN "weak" ELSE "failed"]
  /\ Begins("tls")
  /\ UNCHANGED <<site, headers, email, now, missed, answer>>

Probed == IF tls.step = "probe10" THEN 10 ELSE 11

\* The site answers a probe, or the probe fails on the way or at a certificate that
\* has expired meanwhile: its error is ignored.
Probe ==
  /\ tls.step \in {"probe10", "probe11"}
  /\ \E reached \in BOOLEAN :
       LET accepted == reached /\ ChainValid /\ Probed \in site.offers IN
       /\ reached => InTime("tls")
       /\ missed' = (missed \/ (Probed \in site.offers /\ ~accepted))
       /\ tls' = IF tls.step = "probe10"
                 THEN [tls EXCEPT !.step = "probe11", !.tls10 = accepted]
                 ELSE [tls EXCEPT !.step = "done",
                         !.grade = GradeTLS(tls.version, tls.tls10, accepted,
                                            ChainValid, DaysLeft(site.hours))]
  /\ Begins("tls")
  /\ UNCHANGED <<site, headers, email, now, answer>>

\* The certificate expires between two steps of the check.
Expire ==
  /\ tls.step \notin {"done", "failed"} /\ site.hours = 0
  /\ site' = [site EXCEPT !.hours = -1]
  /\ UNCHANGED <<headers, tls, email, began, now, missed, answer>>

--------------------------------------------------------------------------------
(* EmailAuthChecker.Check *)

\* The records of the domain are read one after the other.  A lookup that fails
\* counts as one without a record: the check never fails.  The nine DKIM lookups
\* are one step, since no section of the answer depends on them.
LookupTXT ==
  /\ \E present \in BOOLEAN :
       /\ present => InTime("email")
       /\ \/ /\ email.step = "spf"
             /\ email' = [email EXCEPT !.step = "dmarc", !.spf = present]
          \/ /\ email.step = "dmarc"
             /\ email' = [email EXCEPT !.step = "dkim", !.dmarc = present]
          \/ /\ email.step = "dkim"
             /\ email' = [email EXCEPT !.step = "done"]
  /\ Begins("email")
  /\ UNCHANGED <<site, headers, tls, now, missed, answer>>

--------------------------------------------------------------------------------
(* WebsiteCheck *)

Step == [headers |-> headers.step, tls |-> tls.step, email |-> email.step]

Failed == {c \in Check : Step[c] = "failed"}

\* Mutant: a check that fails returns without wg.Done.
Succeeded == {c \in Check : Step[c] = "done"}

Ended == {c \in Check : Step[c] \in {"done", "failed"}}

NoAnswer == [status |-> "none"]

\* A section of a check that failed says so, and a note names the check.
Response ==
  IF Failed = Check THEN [status |-> "error"]
  ELSE [status |-> "ok", headers |-> headers.found, grade |-> tls.grade,
        spf |-> email.spf, dmarc |-> email.dmarc, notes |-> Failed]

Join ==
  /\ answer = NoAnswer
  /\ Check \subseteq Ended
  /\ answer' = Response
  /\ UNCHANGED <<site, headers, tls, email, began, now, missed>>

Tick ==
  /\ \E c \in Check : c \notin Ended
  /\ \A c \in Check : c \notin Ended => InTime(c)
  /\ now' = now + 1
  /\ UNCHANGED <<site, headers, tls, email, began, missed, answer>>

Init ==
  /\ site \in [offers : Offers, trusted : BOOLEAN, hours : Hours]
  /\ headers = [step |-> "https", hop |-> 0, found |-> {}]
  /\ tls = [step |-> "default", version |-> 0, tls10 |-> FALSE, grade |-> "-"]
  /\ email = [step |-> "spf", spf |-> FALSE, dmarc |-> FALSE]
  /\ began = [c \in Check |-> 0]
  /\ now = 0
  /\ missed = FALSE
  /\ answer = NoAnswer

CheckHeaders == FetchFails \/ HeadersDone \/ FollowRedirect \/ RefuseRedirect
CheckTLS     == Handshake \/ HandshakeFails \/ Probe
CheckEmail   == LookupTXT

Next == CheckHeaders \/ CheckTLS \/ CheckEmail \/ Join \/ Expire \/ Tick

Spec == Init /\ [][Next]_vars

\* Every operation ends, by its timeout at the latest, and the waiting handler goes on.
FairSpec ==
  Spec /\ WF_vars(CheckHeaders) /\ WF_vars(CheckTLS) /\ WF_vars(CheckEmail) /\ WF_vars(Join)

--------------------------------------------------------------------------------
(* Properties *)

Grade  == {"A", "B", "C", "D", "F"}
Found  == [passes : 0..8, warns : 0..8, grade : Grade]

\* Sites, checks and clock keep their types; no page is fetched after the last hop.
TypeOK ==
  /\ site \in [offers : Offers, trusted : BOOLEAN, hours : Hours]
  /\ headers \in [step : {"https", "http", "hop", "done", "failed"},
                  hop : 0..MaxRedirects, found : SUBSET Found]
  /\ tls \in [step : {"default", "weak", "probe10", "probe11", "done", "failed"},
              version : {0, 10, 11, 12, 13}, tls10 : BOOLEAN, grade : Grade \cup {"-"}]
  /\ email \in [step : {"spf", "dmarc", "dkim", "done"}, spf : BOOLEAN, dmarc : BOOLEAN]
  /\ began \in [Check -> Nat] /\ now \in Nat /\ missed \in BOOLEAN

\* Whatever handshakes and probes fail on the way: a certificate that is not trusted
\* has no grade, a fair or better one is given only for a modern protocol and a
\* certificate still valid when it is graded, one that expired during the check gets
\* an F although its days left round to none, and an A for which no probe was missed
\* means that TLS 1.0 and 1.1 are refused.
TLSGradeIsEarned ==
  /\ tls.grade # "-" => site.trusted
  /\ tls.grade \in {"A", "B", "C"} => ChainValid /\ \E v \in site.offers : v >= 12
  /\ tls.grade # "-" /\ site.hours < 0 => tls.grade = "F"
  /\ tls.grade = "A" /\ ~missed => 10 \notin site.offers /\ 11 \notin site.offers

\* Rounding and weights make each header that is missing cost a grade, and an A
\* has room for one warning.
HeaderGradeIsEarned ==
  \A f \in headers.found :
    LET fails == Cardinality(CheckedHeaders) - f.passes - f.warns IN
    /\ f.grade = "A" => fails = 0 /\ f.warns <= 1
    /\ f.grade = "B" => fails <= 1
    /\ f.grade = "C" => fails <= 2
    /\ f.grade = "D" => fails <= 3

\* However redirects, retries and timeouts follow each other, the visitor has the
\* answer by the deadline.
InDeadline == answer = NoAnswer => now <= Deadline

\* The visitor gets an answer, whichever checks fail.
Answered == <>(answer # NoAnswer)
================================================================================
