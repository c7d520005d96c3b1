--------------------------- MODULE WebsiteCheckProofs --------------------------
(***************************************************************************)
(* What TLAPS proves of WebsiteCheck, for any site, any number of          *)
(* redirects and any timeouts: types, that neither grade flatters, and that *)
(* the answer is there by the deadline.                                    *)
(***************************************************************************)
EXTENDS WebsiteCheck, FiniteSetTheorems, TLAPS

\* A version that was negotiated is one the site accepts, with a certificate that was
\* valid then, and what the first probe found is true unless it was missed.
Negotiated ==
  /\ tls.step \in {"probe10", "probe11", "done"} =>
       tls.version \in site.offers /\ site.trusted
  /\ tls.grade # "-" => tls.step = "done"
  /\ tls.step = "probe11" /\ ~missed => tls.tls10 = (10 \in site.offers)

InTimeSoFar == now <= Deadline

IInv ==
  /\ TypeOK /\ Negotiated /\ InTimeSoFar
  /\ TLSGradeIsEarned /\ HeaderGradeIsEarned

--------------------------------------------------------------------------------
(* Header grades *)

LEMMA EightHeaders == IsFiniteSet(CheckedHeaders) /\ Cardinality(CheckedHeaders) = 8
<1> DEFINE s1 == {"Content-Security-Policy"}
           s2 == s1 \cup {"Strict-Transport-Security"}
           s3 == s2 \cup {"X-Frame-Options"}
           s4 == s3 \cup {"X-Content-Type-Options"}
           s5 == s4 \cup {"Referrer-Policy"}
           s6 == s5 \cup {"Permissions-Policy"}
           s7 == s6 \cup {"Cross-Origin-Opener-Policy"}
           s8 == s7 \cup {"Cross-Origin-Resource-Policy"}
<1>1. IsFiniteSet(s1) /\ Cardinality(s1) = 1
  BY FS_Singleton
<1>2. IsFiniteSet(s2) /\ Cardinality(s2) = 2
  BY <1>1, FS_AddElement
<1>3. IsFiniteSet(s3) /\ Cardinality(s3) = 3
  BY <1>2, FS_AddElement
<1>4. IsFiniteSet(s4) /\ Cardinality(s4) = 4
  BY <1>3, FS_AddElement
<1>5. IsFiniteSet(s5) /\ Cardinality(s5) = 5
  BY <1>4, FS_AddElement
<1>6. IsFiniteSet(s6) /\ Cardinality(s6) = 6
  BY <1>5, FS_AddElement
<1>7. IsFiniteSet(s7) /\ Cardinality(s7) = 7
  BY <1>6, FS_AddElement
<1>8. IsFiniteSet(s8) /\ Cardinality(s8) = 8
  BY <1>7, FS_AddElement
<1>9. CheckedHeaders = s8
  BY DEF CheckedHeaders
<1> QED BY <1>8, <1>9

\* A header has one verdict.
LEMMA CountsFit ==
  ASSUME NEW page
  PROVE  /\ Count(page, "pass") \in Nat /\ Count(page, "warn") \in Nat
         /\ Count(page, "pass") + Count(page, "warn") <= 8
<1> DEFINE P == {h \in CheckedHeaders : page[h] = "pass"}
           W == {h \in CheckedHeaders : page[h] = "warn"}
<1>1. IsFiniteSet(P) /\ IsFiniteSet(W) /\ P \cap W = {} /\ P \cup W \subseteq CheckedHeaders
  BY EightHeaders, FS_Subset
<1>2. Cardinality(P) \in Nat /\ Cardinality(W) \in Nat /\ IsFiniteSet(P \cup W)
  BY <1>1, FS_CardinalityType, FS_Union
<1>3. Cardinality(P \cup W) = Cardinality(P) + Cardinality(W)
  BY <1>1, <1>2, FS_Union, FS_EmptySet
<1>4. Cardinality(P \cup W) <= 8
  BY <1>1, EightHeaders, FS_Subset
<1> QED BY <1>2, <1>3, <1>4 DEF Count

\* What the percentage means in points: 15 of 16 for an A, then 13, 12 and 10.
LEMMA Points ==
  ASSUME NEW n \in 0..16
  PROVE  /\ (n * 100) \div 16 >= 90 => n >= 15
         /\ (n * 100) \div 16 >= 80 => n >= 13
         /\ (n * 100) \div 16 >= 70 => n >= 12
         /\ (n * 100) \div 16 >= 60 => n >= 10
         /\ (n * 100) \div 16 \in Int
BY SMT

\* What a grade says of the verdicts it was given for.
Earned(f) ==
  LET fails == Cardinality(CheckedHeaders) - f.passes - f.warns IN
  /\ f.grade = "A" => fails = 0 /\ f.warns <= 1
  /\ f.grade = "B" => fails <= 1
  /\ f.grade = "C" => fails <= 2
  /\ f.grade = "D" => fails <= 3

LEMMA GradedFound ==
  ASSUME NEW f \in Graded
  PROVE  f \in Found /\ Earned(f)
<1>1. PICK page \in Pages : f = GradeHeaders(page)
  BY DEF Graded
<1> DEFINE p == Count(page, "pass")
           w == Count(page, "warn")
           n == 2 * p + w
           pct == (n * 100) \div 16
<1>2. p \in Nat /\ w \in Nat /\ p + w <= 8
  BY CountsFit
<1>3. f = [passes |-> p, warns |-> w, grade |-> LetterGradeFromPercent(pct)]
  <2>1. MaxScore(p, w) = 16
    BY EightHeaders DEF MaxScore
  <2> QED BY <1>1, <2>1 DEF GradeHeaders
<1> HIDE DEF p, w
<1>4. n \in 0..16
  BY <1>2
<1> HIDE DEF n
<1>5. /\ pct >= 90 => n >= 15
      /\ pct >= 80 => n >= 13
      /\ pct >= 70 => n >= 12
      /\ pct >= 60 => n >= 10
      /\ pct \in Int
  BY <1>4, Points
<1> HIDE DEF pct
<1>6. /\ f.passes = p /\ f.warns = w /\ f.grade \in Grade
      /\ f.grade = "A" => pct >= 90
      /\ f.grade = "B" => pct >= 80
      /\ f.grade = "C" => pct >= 70
      /\ f.grade = "D" => pct >= 60
  BY <1>3, <1>5 DEF LetterGradeFromPercent, Grade
<1>7. f \in Found
  BY <1>2, <1>3, <1>6 DEF Found
<1>8. n = 2 * p + w
  BY DEF n
<1> QED BY <1>2, <1>5, <1>6, <1>7, <1>8, EightHeaders DEF Earned

--------------------------------------------------------------------------------
(* TLS grades *)

LEMMA Costs ==
  ASSUME NEW version, NEW days \in Int, NEW valid \in BOOLEAN
  PROVE  /\ ProtocolCost(version) \in {0, 5, 40} /\ ChainCost(valid) \in {0, 40}
         /\ ExpiryCost(days) \in {0, 5, 15, 60}
         /\ version \notin {12, 13} => ProtocolCost(version) = 40
         /\ ~valid => ChainCost(valid) = 40
         /\ days <= 0 => ExpiryCost(days) >= 15
<1>1. ProtocolCost(version) \in {0, 5, 40} /\ (version \notin {12, 13} => ProtocolCost(version) = 40)
  BY DEF ProtocolCost
<1>2. ExpiryCost(days) \in {0, 5, 15, 60} /\ (days <= 0 => ExpiryCost(days) >= 15)
  BY DEF ExpiryCost
<1> QED BY <1>1, <1>2 DEF ChainCost

LEMMA Days ==
  ASSUME NEW hours \in Int
  PROVE  DaysLeft(hours) \in Int /\ (hours < 0 => DaysLeft(hours) <= 0)
BY SMT DEF DaysLeft

LEMMA TLSGrades ==
  ASSUME NEW version, NEW tls10 \in BOOLEAN, NEW tls11 \in BOOLEAN, NEW valid \in BOOLEAN,
         NEW days \in Int
  PROVE  LET g == GradeTLS(version, tls10, tls11, valid, days) IN
         /\ g \in Grade
         /\ g \in {"A", "B", "C"} => valid /\ version \in {12, 13}
         /\ ~valid /\ days <= 0 => g = "F"
         /\ g = "A" => ~tls10 /\ ~tls11
<1> DEFINE c == ProtocolCost(version)
           d == ChainCost(valid)
           e == ExpiryCost(days)
           x == IF tls10 THEN 25 ELSE 0
           y == IF tls11 THEN 15 ELSE 0
           pct == 100 - c - x - y - d - e
<1>1. /\ c \in {0, 5, 40} /\ d \in {0, 40} /\ e \in {0, 5, 15, 60}
      /\ version \notin {12, 13} => c = 40
      /\ ~valid => d = 40
      /\ days <= 0 => e >= 15
  BY Costs
<1>2. x \in {0, 25} /\ y \in {0, 15} /\ (tls10 => x = 25) /\ (tls11 => y = 15)
  OBVIOUS
<1>3. GradeTLS(version, tls10, tls11, valid, days) = LetterGradeFromPercent(pct)
  BY DEF GradeTLS
<1> HIDE DEF c, d, e, x, y
<1>4. /\ pct \in Int
      /\ pct >= 70 => valid /\ version \in {12, 13}
      /\ ~valid /\ days <= 0 => pct < 60
      /\ pct >= 90 => ~tls10 /\ ~tls11
  BY <1>1, <1>2
<1> HIDE DEF pct
<1>5. LET g == LetterGradeFromPercent(pct) IN
      /\ g \in Grade
      /\ g \in {"A", "B", "C"} => pct >= 70
      /\ g = "A" => pct >= 90
      /\ pct < 60 => g = "F"
  BY <1>4 DEF LetterGradeFromPercent, Grade
<1> QED BY <1>3, <1>4, <1>5

--------------------------------------------------------------------------------
(* Steps *)

LEMMA LimitFits ==
  ASSUME TypeOK, NEW c \in Check
  PROVE  Limit(c) \in Nat /\ Limit(c) <= Deadline
BY BoundAssumption DEF Limit, TypeOK

LEMMA BeginsKeeps ==
  ASSUME TypeOK, NEW c \in Check, Begins(c)
  PROVE  began' \in [Check -> Nat]
BY DEF Begins, TypeOK

LEMMA TypeSteps ==
  ASSUME TypeOK, [Next]_vars
  PROVE  TypeOK'
<1> DEFINE H == [step : {"https", "http", "hop", "done", "failed"},
                 hop : 0..MaxRedirects, found : SUBSET Found]
           T == [step : {"default", "weak", "probe10", "probe11", "done", "failed"},
                 version : {0, 10, 11, 12, 13}, tls10 : BOOLEAN, grade : Grade \cup {"-"}]
           E == [step : {"spf", "dmarc", "dkim", "done"}, spf : BOOLEAN, dmarc : BOOLEAN]
<1>0. headers \in H /\ tls \in T /\ email \in E
  BY DEF TypeOK
<1>1. ASSUME CheckHeaders PROVE TypeOK'
  <2>1. UNCHANGED <<site, tls, email, now, missed>>
    BY <1>1 DEF CheckHeaders, FetchFails, HeadersDone, FollowRedirect, RefuseRedirect
  <2>2. began' \in [Check -> Nat]
    BY <1>1, BeginsKeeps
       DEF CheckHeaders, FetchFails, HeadersDone, FollowRedirect, RefuseRedirect, TypeOK, Check
  <2>3. ASSUME FetchFails PROVE headers' \in H
    <3>1. CASE headers.step = "https"
      BY <1>0, <2>3, <3>1 DEF FetchFails
    <3>2. CASE headers.step # "https"
      BY <1>0, <2>3, <3>2 DEF FetchFails
    <3> QED BY <3>1, <3>2
  <2>4. ASSUME HeadersDone PROVE headers' \in H
    <3>1. PICK f \in Graded : headers' = [headers EXCEPT !.step = "done", !.found = {f}]
      BY <2>4 DEF HeadersDone
    <3>2. {f} \in SUBSET Found
      BY GradedFound
    <3> DEFINE one == {f}
    <3> HIDE DEF one
    <3>3. headers' = [headers EXCEPT !.step = "done", !.found = one] /\ one \in SUBSET Found
      BY <3>1, <3>2 DEF one
    <3> QED BY <1>0, <3>3
  <2>5. ASSUME FollowRedirect PROVE headers' \in H
    <3> DEFINE next == headers.hop + 1
    <3>1. next \in 0..MaxRedirects
      BY <2>5, BoundAssumption DEF FollowRedirect, MayFollow, TypeOK
    <3>2. headers' = [headers EXCEPT !.step = "hop", !.hop = next]
      BY <2>5 DEF FollowRedirect
    <3> HIDE DEF next
    <3> QED BY <1>0, <3>1, <3>2
  <2>6. ASSUME RefuseRedirect PROVE headers' \in H
    BY <1>0, <2>6 DEF RefuseRedirect
  <2>7. headers' \in H
    BY <1>1, <2>3, <2>4, <2>5, <2>6 DEF CheckHeaders
  <2> QED BY <2>1, <2>2, <2>7 DEF TypeOK
<1>2. ASSUME CheckTLS PROVE TypeOK'
  <2>1. UNCHANGED <<site, headers, email, now>> /\ missed' \in BOOLEAN
    BY <1>2 DEF CheckTLS, Handshake, HandshakeFails, Probe, TypeOK
  <2>2. began' \in [Check -> Nat]
    BY <1>2, BeginsKeeps DEF CheckTLS, Handshake, HandshakeFails, Probe, Check
  <2>3. ASSUME Handshake PROVE tls' \in T
    <3>1. PICK v \in Negotiable(Floor) :
            tls' = [tls EXCEPT !.step = "probe10", !.version = v]
      BY <2>3 DEF Handshake
    <3>2. v \in {0, 10, 11, 12, 13}
      BY OffersAssumption DEF Negotiable, TypeOK
    <3> QED BY <1>0, <3>1, <3>2
  <2>4. ASSUME HandshakeFails PROVE tls' \in T
    <3>1. CASE tls.step = "default"
      BY <1>0, <2>4, <3>1 DEF HandshakeFails
    <3>2. CASE tls.step # "default"
      BY <1>0, <2>4, <3>2 DEF HandshakeFails
    <3> QED BY <3>1, <3>2
  <2>5. ASSUME Probe PROVE tls' \in T
    <3>1. PICK accepted \in BOOLEAN :
            tls' = IF tls.step = "probe10"
                   THEN [tls EXCEPT !.step = "probe11", !.tls10 = accepted]
                   ELSE [tls EXCEPT !.step = "done",
                           !.grade = GradeTLS(tls.version, tls.tls10, accepted,
                                              ChainValid, DaysLeft(site.hours))]
      BY <2>5 DEF Probe
    <3> DEFINE g == GradeTLS(tls.version, tls.tls10, accepted, ChainValid,
                             DaysLeft(site.hours))
    <3>2. DaysLeft(site.hours) \in Int /\ ChainValid \in BOOLEAN /\ tls.tls10 \in BOOLEAN
      BY Days, HoursAssumption DEF TypeOK, ChainValid
    <3>3. g \in Grade
      BY <3>2, TLSGrades
    <3>4. CASE tls.step = "probe10"
      BY <1>0, <3>1, <3>4
    <3>5. CASE tls.step # "probe10"
      <4>1. tls' = [tls EXCEPT !.step = "done", !.grade = g] /\ g \in Grade \cup {"-"}
        BY <3>1, <3>3, <3>5
      <4> HIDE DEF g
      <4> QED BY <1>0, <4>1
    <3> QED BY <3>4, <3>5
  <2>6. tls' \in T
    BY <1>2, <2>3, <2>4, <2>5 DEF CheckTLS
  <2> QED BY <2>1, <2>2, <2>6 DEF TypeOK
<1>3. ASSUME CheckEmail PROVE TypeOK'
  <2>1. began' \in [Check -> Nat]
    BY <1>3, BeginsKeeps DEF CheckEmail, LookupTXT, Check
  <2>2. PICK present \in BOOLEAN :
          \/ email' = [email EXCEPT !.step = "dmarc", !.spf = present]
          \/ email' = [email EXCEPT !.step = "dkim", !.dmarc = present]
          \/ email' = [email EXCEPT !.step = "done"]
    BY <1>3 DEF CheckEmail, LookupTXT
  <2>3. email' \in E
    BY <1>0, <2>2
  <2>4. UNCHANGED <<site, headers, tls, now, missed>>
    BY <1>3 DEF CheckEmail, LookupTXT
  <2> QED BY <2>1, <2>3, <2>4 DEF TypeOK
<1>4. ASSUME Join \/ UNCHANGED vars PROVE TypeOK'
  BY <1>4 DEF Join, vars, TypeOK
<1>5. ASSUME Tick PROVE TypeOK'
  BY <1>5 DEF Tick, TypeOK
<1>6. ASSUME Expire PROVE TypeOK'
  <2>1. site' \in [offers : Offers, trusted : BOOLEAN, hours : Hours]
    BY <1>6, HoursAssumption DEF Expire, TypeOK
  <2> QED BY <1>6, <2>1 DEF Expire, TypeOK
<1> QED BY <1>1, <1>2, <1>3, <1>4, <1>5, <1>6 DEF Next

\* Only the TLS check changes what its grade rests on.
LEMMA TLSSteps ==
  ASSUME TypeOK, Negotiated, TLSGradeIsEarned, [Next]_vars
  PROVE  Negotiated' /\ TLSGradeIsEarned'
<1> USE DEF Begins
<1>1. ASSUME UNCHANGED <<site, tls, missed>> PROVE Negotiated' /\ TLSGradeIsEarned'
  BY <1>1 DEF Negotiated, TLSGradeIsEarned, ChainValid
<1>2. ASSUME Handshake PROVE Negotiated' /\ TLSGradeIsEarned'
  <2>1. PICK v \in Negotiable(Floor) :
          tls' = [tls EXCEPT !.step = "probe10", !.version = v]
    BY <1>2 DEF Handshake
  <2>2. /\ tls.step \in {"default", "weak"} /\ UNCHANGED <<site, missed>>
        /\ v \in site.offers /\ site.trusted /\ tls.grade = "-"
    BY <1>2 DEF Handshake, ChainValid, Negotiable, Negotiated
  <2>3. tls'.step = "probe10" /\ tls'.version = v /\ tls'.grade = "-"
    BY <2>1, <2>2 DEF TypeOK
  <2> QED BY <2>2, <2>3 DEF Negotiated, TLSGradeIsEarned
<1>3. ASSUME HandshakeFails PROVE Negotiated' /\ TLSGradeIsEarned'
  <2>1. /\ tls.step \in {"default", "weak"} /\ UNCHANGED <<site, missed>>
        /\ tls.grade = "-" /\ tls'.grade = tls.grade /\ tls'.step \in {"weak", "failed"}
    BY <1>3 DEF HandshakeFails, Negotiated, TypeOK
  <2> QED BY <2>1 DEF Negotiated, TLSGradeIsEarned
<1>4. ASSUME Probe PROVE Negotiated' /\ TLSGradeIsEarned'
  <2>1. PICK reached \in BOOLEAN :
          LET accepted == reached /\ ChainValid /\ Probed \in site.offers IN
          /\ missed' = (missed \/ (Probed \in site.offers /\ ~accepted))
          /\ tls' = IF tls.step = "probe10"
                    THEN [tls EXCEPT !.step = "probe11", !.tls10 = accepted]
                    ELSE [tls EXCEPT !.step = "done",
                            !.grade = GradeTLS(tls.version, tls.tls10, accepted,
                                               ChainValid, DaysLeft(site.hours))]
    BY <1>4 DEF Probe
  <2> DEFINE accepted == reached /\ ChainValid /\ Probed \in site.offers
             g == GradeTLS(tls.version, tls.tls10, accepted, ChainValid, DaysLeft(site.hours))
  <2>2. /\ site' = site /\ tls.step \in {"probe10", "probe11"} /\ tls.grade = "-"
        /\ tls.version \in site.offers /\ site.trusted
    BY <1>4 DEF Probe, Negotiated
  <2>3. CASE tls.step = "probe10"
    <3>1. /\ tls'.step = "probe11" /\ tls'.tls10 = accepted /\ tls'.grade = "-"
          /\ tls'.version = tls.version
      BY <2>1, <2>2, <2>3 DEF TypeOK
    <3>2. ~missed' => accepted = (10 \in site.offers)
      <4>1. Probed = 10
        BY <2>3 DEF Probed
      <4>2. ~missed' => (10 \in site.offers => accepted)
        BY <2>1, <4>1
      <4> QED BY <4>1, <4>2
    <3> HIDE DEF accepted
    <3> QED BY <2>2, <3>1, <3>2 DEF Negotiated, TLSGradeIsEarned
  <2>4. CASE tls.step = "probe11"
    <3>1. /\ DaysLeft(site.hours) \in Int /\ ChainValid \in BOOLEAN /\ tls.tls10 \in BOOLEAN
          /\ accepted \in BOOLEAN
          /\ site.hours < 0 => ~ChainValid /\ DaysLeft(site.hours) <= 0
      <4>1. site.hours \in Int /\ tls.tls10 \in BOOLEAN
        BY HoursAssumption DEF TypeOK
      <4>2. ChainValid \in BOOLEAN /\ accepted \in BOOLEAN
        BY DEF ChainValid
      <4>3. site.hours < 0 => ~ChainValid
        BY <4>1 DEF ChainValid
      <4> HIDE DEF accepted
      <4> QED BY <4>1, <4>2, <4>3, Days
    <3>2. /\ g \in {"A", "B", "C"} => ChainValid /\ tls.version \in {12, 13}
          /\ ~ChainValid /\ DaysLeft(site.hours) <= 0 => g = "F"
          /\ g = "A" => ~tls.tls10 /\ ~accepted
      <4> HIDE DEF accepted
      <4> QED BY <3>1, TLSGrades
    <3>3. ~missed' => /\ accepted = (11 \in site.offers)
                      /\ tls.tls10 = (10 \in site.offers)
      <4>1. Probed = 11
        BY <2>4 DEF Probed
      <4>2. ~missed' => (11 \in site.offers => accepted) /\ ~missed
        BY <2>1, <4>1
      <4>3. ~missed' => accepted = (11 \in site.offers)
        BY <4>1, <4>2
      <4>4. ~missed' => tls.tls10 = (10 \in site.offers)
        BY <2>4, <4>2 DEF Negotiated
      <4> QED BY <4>3, <4>4
    <3> HIDE DEF g, accepted
    <3>4. tls' = [tls EXCEPT !.step = "done", !.grade = g]
      BY <2>1, <2>4 DEF g, accepted
    <3>5. tls'.step = "done" /\ tls'.grade = g /\ tls'.version = tls.version
      BY <3>4 DEF TypeOK
    <3>6. Negotiated'
      BY <2>2, <3>5 DEF Negotiated
    <3>7. ChainValid' = ChainValid
      BY <2>2 DEF ChainValid
    <3> QED BY <2>2, <3>1, <3>2, <3>3, <3>5, <3>6, <3>7 DEF TLSGradeIsEarned
  <2> QED BY <2>2, <2>3, <2>4
<1>5. ASSUME CheckHeaders \/ CheckEmail \/ Join \/ Tick \/ UNCHANGED vars
      PROVE  UNCHANGED <<site, tls, missed>>
  BY <1>5 DEF CheckHeaders, FetchFails, HeadersDone, FollowRedirect, RefuseRedirect,
              CheckEmail, LookupTXT, Join, Tick, vars
<1>6. ASSUME Expire PROVE Negotiated' /\ TLSGradeIsEarned'
  <2>1. /\ tls' = tls /\ missed' = missed /\ tls.step \notin {"done", "failed"}
        /\ tls.grade = "-"
    BY <1>6 DEF Expire, Negotiated
  <2>2. site'.offers = site.offers /\ site'.trusted = site.trusted
    BY <1>6 DEF Expire, TypeOK
  <2> QED BY <2>1, <2>2 DEF Negotiated, TLSGradeIsEarned
<1> QED BY <1>1, <1>2, <1>3, <1>4, <1>5, <1>6 DEF Next, CheckTLS

LEMMA HeaderSteps ==
  ASSUME TypeOK, HeaderGradeIsEarned, [Next]_vars
  PROVE  HeaderGradeIsEarned'
<1>1. ASSUME headers'.found = headers.found PROVE HeaderGradeIsEarned'
  BY <1>1 DEF HeaderGradeIsEarned
<1>2. ASSUME HeadersDone PROVE HeaderGradeIsEarned'
  <2>1. PICK f \in Graded : headers' = [headers EXCEPT !.step = "done", !.found = {f}]
    BY <1>2 DEF HeadersDone
  <2>2. headers'.found = {f}
    BY <2>1 DEF TypeOK
  <2>3. Earned(f)
    BY GradedFound
  <2> QED BY <2>2, <2>3 DEF HeaderGradeIsEarned, Earned
<1>3. ASSUME \/ FetchFails \/ FollowRedirect \/ RefuseRedirect
             \/ CheckTLS \/ CheckEmail \/ Join \/ Expire \/ Tick \/ UNCHANGED vars
      PROVE  headers'.found = headers.found
  BY <1>3 DEF FetchFails, FollowRedirect, RefuseRedirect, CheckTLS, Handshake,
              HandshakeFails, Probe, CheckEmail, LookupTXT, Join, Expire, Tick, vars, TypeOK
<1> QED BY <1>1, <1>2, <1>3 DEF Next, CheckHeaders

LEMMA TimeSteps ==
  ASSUME TypeOK, InTimeSoFar, [Next]_vars
  PROVE  InTimeSoFar'
<1>1. ASSUME Tick PROVE InTimeSoFar'
  <2>1. PICK c \in Check : now < Limit(c)
    BY <1>1 DEF Tick, InTime
  <2> QED BY <1>1, <2>1, LimitFits, BoundAssumption DEF Tick, TypeOK, InTimeSoFar
<1>2. ASSUME CheckHeaders \/ CheckTLS \/ CheckEmail \/ Join \/ Expire \/ UNCHANGED vars
      PROVE  InTimeSoFar'
  BY <1>2 DEF CheckHeaders, FetchFails, HeadersDone, FollowRedirect, RefuseRedirect,
              CheckTLS, Handshake, HandshakeFails, Probe, CheckEmail, LookupTXT, Join,
              Expire, vars, InTimeSoFar
<1> QED BY <1>1, <1>2 DEF Next

--------------------------------------------------------------------------------
(* Theorems *)

\* What the following theorems rest on.
THEOREM SpecInv == Spec => []IInv
<1>1. Init => IInv
  <2> SUFFICES ASSUME Init PROVE IInv
    OBVIOUS
  <2>1. TypeOK
    <3>1. headers \in [step : {"https", "http", "hop", "done", "failed"},
                       hop : 0..MaxRedirects, found : SUBSET Found]
      BY BoundAssumption DEF Init
    <3>2. /\ tls \in [step : {"default", "weak", "probe10", "probe11", "done", "failed"},
                      version : {0, 10, 11, 12, 13}, tls10 : BOOLEAN,
                      grade : Grade \cup {"-"}]
          /\ email \in [step : {"spf", "dmarc", "dkim", "done"},
                        spf : BOOLEAN, dmarc : BOOLEAN]
      BY DEF Init
    <3>3. began \in [Check -> Nat] /\ now \in Nat /\ missed \in BOOLEAN
      BY DEF Init
    <3> QED BY <3>1, <3>2, <3>3 DEF Init, TypeOK
  <2>2. Negotiated /\ TLSGradeIsEarned
    BY DEF Init, Negotiated, TLSGradeIsEarned
  <2>3. InTimeSoFar /\ HeaderGradeIsEarned
    BY BoundAssumption DEF Init, InTimeSoFar, HeaderGradeIsEarned
  <2> QED BY <2>1, <2>2, <2>3 DEF IInv
<1>2. IInv /\ [Next]_vars => IInv'
  BY TypeSteps, TLSSteps, HeaderSteps, TimeSteps DEF IInv
<1> QED BY <1>1, <1>2, PTL DEF Spec

\* The checks keep their types, and no more than maxHeaderCheckRedirects redirects
\* are followed.
THEOREM TypeCorrect == Spec => []TypeOK
<1>1. IInv => TypeOK
  BY DEF IInv
<1> QED BY <1>1, SpecInv, PTL

\* GradeTLS on what the handshakes and probes found never flatters an outdated
\* protocol, or a certificate that was valid in the handshake and is not any more,
\* whichever of the probes failed.
THEOREM TLSGradesEarned == Spec => []TLSGradeIsEarned
<1>1. IInv => TLSGradeIsEarned
  BY DEF IInv
<1> QED BY <1>1, SpecInv, PTL

\* GradeHeaders takes a grade for each missing header.
THEOREM HeaderGradesEarned == Spec => []HeaderGradeIsEarned
<1>1. IInv => HeaderGradeIsEarned
  BY DEF IInv
<1> QED BY <1>1, SpecInv, PTL

\* The request's context bounds all operations of all checks together.
THEOREM AnsweredInTime == Spec => []InDeadline
<1>1. IInv => InDeadline
  BY DEF IInv, InTimeSoFar, InDeadline
<1> QED BY <1>1, SpecInv, PTL
================================================================================
