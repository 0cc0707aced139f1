---------------------------- MODULE PublicApiProofs ----------------------------
(***************************************************************************)
(* The public proof API takes exactly the documented requests: for every   *)
(* query of any length, whatever its pieces.                               *)
(***************************************************************************)
EXTENDS MCPublicApi, TLAPS

\* A target is spelled out of Paths and Pieces.
Spelled == path \in Paths /\ query \in Seq(Pieces)

\* parse_query as a client sees it: every piece is a pair and no key is repeated.
Clean ==
  /\ \A i \in 1 .. Len(query) : query[i][1] = "pair"
  /\ \A i, j \in 1 .. Len(query) : query[i][2] = query[j][2] => i = j

\* What parse_query returns for a clean query.
LEMMA CleanQuery ==
  /\ Clean <=> parse_query(query).ok
  /\ Clean => DOMAIN parse_query(query).val = {query[i][2] : i \in 1 .. Len(query)}
  /\ Clean => \A i \in 1 .. Len(query) : parse_query(query).val[query[i][2]] = query[i][3]
<1> DEFINE params == [k \in {query[i][2] : i \in 1 .. Len(query)} |->
                        query[CHOOSE i \in 1 .. Len(query) : query[i][2] = k][3]]
<1>1. parse_query(query) = IF Clean THEN Ok(params) ELSE Err(400)
  BY Zenon DEF parse_query, Clean
<1>2. ASSUME Clean, NEW i \in 1 .. Len(query) PROVE params[query[i][2]] = query[i][3]
  <2>1. (CHOOSE j \in 1 .. Len(query) : query[j][2] = query[i][2]) = i
    BY <1>2 DEF Clean
  <2> QED
    BY <2>1
<1>3. DOMAIN params = {query[i][2] : i \in 1 .. Len(query)}
  OBVIOUS
<1> HIDE DEF params
<1>4. Ok(params).ok = TRUE /\ Ok(params).val = params /\ Err(400).ok = FALSE
  BY DEF Ok, Err
<1> QED
  BY <1>1, <1>2, <1>3, <1>4

\* The conditions of parse_public_proof_request, one beside the other.
Params == parse_query(query).val
Start == required_i64(Params, "start")
End == required_i64(Params, "end")
QueryPasses ==
  /\ parse_query(query).ok
  /\ DOMAIN Params \subseteq Parameters
  /\ Start.ok /\ End.ok
  /\ "granularity" \in DOMAIN Params /\ Params["granularity"] = GRANULARITY_LABEL
  /\ "limit" \in DOMAIN Params /\ Params["limit"] = <<"int", 1>>
  /\ validate_request(Start.val, End.val)
Passes ==
  method = "GET" /\ path[1] = "product" /\ path[2] = PRODUCT_ID /\ QueryPasses

\* The answer is a range exactly when all of them hold.
LEMMA AnswerIs ==
  /\ Answer.ok <=> Passes
  /\ Passes => Answer.val.start = Start.val /\ Answer.val.end = End.val
<1> DEFINE target == [path |-> path, query |-> query]
<1>1. target.path = path /\ target.query = query
  OBVIOUS
<1>2. \A e : Err(e).ok = FALSE
  BY DEF Err
<1>3. \A x, y : /\ Ok([start |-> x, end |-> y]).ok = TRUE
                /\ Ok([start |-> x, end |-> y]).val.start = x
                /\ Ok([start |-> x, end |-> y]).val.end = y
  BY DEF Ok
<1> HIDE DEF target
<1>4. Answer = parse_public_proof_request(method, target)
  BY DEF Answer, target
<1>5. CASE ~(method = "GET" /\ path[1] = "product" /\ path[2] = PRODUCT_ID)
  <2>1. Answer = Err(405) \/ Answer = Err(404) \/ Answer = Err(400)
    BY <1>1, <1>4, <1>5 DEF parse_public_proof_request
  <2> QED
    BY <1>2, <1>5, <2>1, Zenon DEF Passes
<1>6. CASE method = "GET" /\ path[1] = "product" /\ path[2] = PRODUCT_ID
  <2>1. Answer = IF QueryPasses THEN Ok([start |-> Start.val, end |-> End.val])
                 ELSE Err(400)
    BY <1>1, <1>4, <1>6 DEF parse_public_proof_request, QueryPasses, Start, End, Params
  <2>2. CASE QueryPasses
    BY <1>3, <1>6, <2>1, <2>2 DEF Passes
  <2>3. CASE ~QueryPasses
    BY <1>2, <1>6, <2>1, <2>3 DEF Passes
  <2> QED
    BY <2>2, <2>3
<1> QED
  BY <1>5, <1>6

\* Four different places that are all there are.
LEMMA FourPlaces ==
  ASSUME NEW n \in Nat, NEW a \in 1 .. n, NEW b \in 1 .. n, NEW c \in 1 .. n, NEW d \in 1 .. n,
         a # b, a # c, a # d, b # c, b # d, c # d,
         \A i \in 1 .. n : i = a \/ i = b \/ i = c \/ i = d
  PROVE  n = 4
<1>1. n >= 4
  OBVIOUS
<1>2. ~(n >= 5)
  <2> SUFFICES ASSUME n >= 5 PROVE FALSE
    OBVIOUS
  <2>1. /\ 1 \in {a, b, c, d} /\ 2 \in {a, b, c, d} /\ 3 \in {a, b, c, d}
        /\ 4 \in {a, b, c, d} /\ 5 \in {a, b, c, d}
    OBVIOUS
  <2> QED
    BY <2>1
<1> QED
  BY <1>1, <1>2

\* And the other way round: four places that differ are all of 1 .. 4.
LEMMA AllPlaces ==
  ASSUME NEW a \in 1 .. 4, NEW b \in 1 .. 4, NEW c \in 1 .. 4, NEW d \in 1 .. 4,
         a # b, a # c, a # d, b # c, b # d, c # d, NEW i \in 1 .. 4
  PROVE  i = a \/ i = b \/ i = c \/ i = d
OBVIOUS

\* The constants by themselves.
LEMMA Granularity == GRANULARITY_SECONDS \in Nat \ {0} /\ I64_MAX \in Nat \ {0}
  BY FormatAssumption, Zenon

\* A piece that is a pair.
LEMMA Pair ==
  ASSUME Spelled, NEW i \in 1 .. Len(query), query[i][1] = "pair"
  PROVE  /\ query[i] = <<"pair", query[i][2], query[i][3]>>
         /\ query[i][3] = <<query[i][3][1], query[i][3][2]>>
         /\ query[i][3][1] \in {"int", "int_alias"} => query[i][3][2] \in I64
<1>1. query[i] \in Pieces
  BY DEF Spelled
<1> QED
  BY <1>1, TargetAssumption, Zenon

\* What required_i64 reads.
LEMMA Required ==
  ASSUME NEW params, NEW name
  PROVE  /\ required_i64(params, name).ok <=>
              name \in DOMAIN params /\ params[name][1] \in {"int", "int_alias"}
         /\ required_i64(params, name).ok =>
              required_i64(params, name).val = params[name][2]
BY DEF required_i64, Ok, Err

\* A request that is taken has the documented form.
LEMMA TakenIsDocumented ==
  ASSUME Spelled, Passes
  PROVE  Documented(Start.val) /\ End.val = Start.val
<1>1. /\ Clean /\ DOMAIN Params = {query[i][2] : i \in 1 .. Len(query)}
      /\ \A i \in 1 .. Len(query) : Params[query[i][2]] = query[i][3]
  BY CleanQuery, Zenon DEF Passes, QueryPasses, Params
<1>2. /\ "start" \in DOMAIN Params /\ Params["start"][1] \in {"int", "int_alias"}
      /\ "end" \in DOMAIN Params /\ Params["end"][1] \in {"int", "int_alias"}
      /\ Start.val = Params["start"][2] /\ End.val = Params["end"][2]
  <2>1. required_i64(Params, "start").ok /\ required_i64(Params, "end").ok
    BY Zenon DEF Passes, QueryPasses, Start, End
  <2>2. PICK p : p = Params
    OBVIOUS
  <2>3. required_i64(p, "start").ok /\ required_i64(p, "end").ok
    BY <2>1, <2>2, Zenon
  <2>4. /\ "start" \in DOMAIN p /\ p["start"][1] \in {"int", "int_alias"}
        /\ "end" \in DOMAIN p /\ p["end"][1] \in {"int", "int_alias"}
        /\ required_i64(p, "start").val = p["start"][2]
        /\ required_i64(p, "end").val = p["end"][2]
    BY <2>3, Required
  <2> QED
    BY <2>2, <2>4, Zenon DEF Start, End
<1>3. /\ "granularity" \in DOMAIN Params /\ Params["granularity"] = GRANULARITY_LABEL
      /\ "limit" \in DOMAIN Params /\ Params["limit"] = <<"int", 1>>
      /\ DOMAIN Params \subseteq Parameters
  BY Zenon DEF Passes, QueryPasses
<1>4. PICK a \in 1 .. Len(query) : query[a][2] = "start"
  BY <1>1, <1>2, Zenon
<1>5. PICK b \in 1 .. Len(query) : query[b][2] = "end"
  BY <1>1, <1>2, Zenon
<1>6. PICK c \in 1 .. Len(query) : query[c][2] = "granularity"
  BY <1>1, <1>3, Zenon
<1>7. PICK d \in 1 .. Len(query) : query[d][2] = "limit"
  BY <1>1, <1>3, Zenon
<1>8. \A i \in 1 .. Len(query) : query[i] = <<"pair", query[i][2], query[i][3]>>
  BY <1>1, Pair, Zenon DEF Clean
<1>9. PICK v, w, s : v = query[a][3] /\ w = query[b][3] /\ s = Start.val
  OBVIOUS
<1>10. /\ query[a] = <<"pair", "start", v>> /\ query[b] = <<"pair", "end", w>>
       /\ query[c] = <<"pair", "granularity", GRANULARITY_LABEL>>
       /\ query[d] = <<"pair", "limit", <<"int", 1>>>>
       /\ Params["start"] = v /\ Params["end"] = w
  BY <1>1, <1>3, <1>4, <1>5, <1>6, <1>7, <1>8, <1>9, Zenon
<1>11. a # b /\ a # c /\ a # d /\ b # c /\ b # d /\ c # d
  BY <1>4, <1>5, <1>6, <1>7
<1>12. \A i \in 1 .. Len(query) : i = a \/ i = b \/ i = c \/ i = d
  <2> TAKE i \in 1 .. Len(query)
  <2>1. query[i][2] \in Parameters
    BY <1>1, <1>3, Zenon
  <2>2. \/ query[i][2] = query[a][2] \/ query[i][2] = query[b][2]
        \/ query[i][2] = query[c][2] \/ query[i][2] = query[d][2]
    BY <1>4, <1>5, <1>6, <1>7, <2>1, Zenon DEF Parameters
  <2> QED
    BY <1>1, <2>2, Zenon DEF Clean
<1>13. Len(query) = 4
  <2>1. PICK n : n = Len(query)
    OBVIOUS
  <2>2. n \in Nat /\ a \in 1 .. n /\ b \in 1 .. n /\ c \in 1 .. n /\ d \in 1 .. n
    BY <2>1 DEF Spelled
  <2>3. \A i \in 1 .. n : i = a \/ i = b \/ i = c \/ i = d
    BY <1>12, <2>1, Zenon
  <2>4. n = 4
    BY <1>11, <2>2, <2>3, FourPlaces
  <2> QED
    BY <2>1, <2>4, Zenon
<1>14. /\ v = <<v[1], s>> /\ w = <<w[1], s>> /\ End.val = s /\ s \in Int
       /\ v[1] \in {"int", "int_alias"} /\ w[1] \in {"int", "int_alias"}
       /\ s >= 0 /\ s % GRANULARITY_SECONDS = 0
  <2>1. /\ Start.val >= 0 /\ Start.val = End.val
        /\ Start.val % GRANULARITY_SECONDS = 0
    BY Zenon DEF Passes, QueryPasses, validate_request
  <2>2. /\ query[a][1] = "pair" /\ query[b][1] = "pair"
    BY <1>1, Zenon DEF Clean
  <2>3. /\ v = <<v[1], v[2]>> /\ w = <<w[1], w[2]>>
        /\ v[1] \in {"int", "int_alias"} => v[2] \in I64
    BY <1>9, <2>2, Pair, Zenon
  <2>4. /\ v[1] \in {"int", "int_alias"} /\ w[1] \in {"int", "int_alias"}
        /\ v[2] = s /\ w[2] = End.val
    BY <1>2, <1>9, <1>10, Zenon
  <2>5. v[2] \in Int
    BY <2>3, <2>4, Granularity DEF I64, I64_MIN
  <2> QED
    BY <1>9, <2>1, <2>3, <2>4, <2>5, Zenon
<1>15. Reads(v, s) /\ Reads(w, s)
  BY <1>14, Zenon DEF Reads
<1>16. \E k \in 0 .. s : s = k * GRANULARITY_SECONDS
  <2>1. PICK g : g = GRANULARITY_SECONDS
    OBVIOUS
  <2>2. g \in Nat /\ g > 0 /\ s \in Nat /\ s % g = 0
    BY <1>14, <2>1, Granularity
  <2>3. s \div g \in Nat /\ s = (s \div g) * g
    BY <2>2
  <2>4. s \div g <= s
    BY <2>2, <2>3
  <2> QED
    BY <1>14, <2>1, <2>3, <2>4
<1>17. {query[i] : i \in 1 .. 4} = {<<"pair", "start", v>>, <<"pair", "end", w>>,
             <<"pair", "granularity", GRANULARITY_LABEL>>,
             <<"pair", "limit", <<"int", 1>>>>}
  BY <1>10, <1>12, <1>13, Zenon
<1>18. {v, w} \subseteq {query[i][3] : i \in {j \in 1 .. 4 : query[j][1] = "pair"}}
  BY <1>1, <1>9, <1>13, Zenon DEF Clean
<1>19. method = "GET" /\ path = <<"product", PRODUCT_ID>>
  <2>1. path = <<"other">> \/ path = <<"product", path[2]>>
    BY TargetAssumption, Zenon DEF Spelled
  <2>2. method = "GET" /\ path[1] = "product" /\ path[2] = PRODUCT_ID
    BY DEF Passes
  <2>3. <<"other">>[1] # "product"
    OBVIOUS
  <2> QED
    BY <2>1, <2>2, <2>3, Zenon
<1>20. Documented(s)
  BY <1>13, <1>14, <1>15, <1>16, <1>17, <1>18, <1>19, Zenon DEF Documented
<1> QED
  BY <1>9, <1>14, <1>20

\* And what has the documented form is taken.
LEMMA DocumentedIsTaken ==
  ASSUME Spelled, NEW s \in 0 .. I64_MAX, Documented(s)
  PROVE  Passes
<1>1. /\ method = "GET" /\ path = <<"product", PRODUCT_ID>>
      /\ Len(query) = 4
      /\ s >= 0 /\ \E k \in 0 .. s : s = k * GRANULARITY_SECONDS
  BY Zenon DEF Documented
<1>2. PICK v, w : /\ Reads(v, s) /\ Reads(w, s)
                  /\ {query[i] : i \in 1 .. 4} =
                       {<<"pair", "start", v>>, <<"pair", "end", w>>,
                        <<"pair", "granularity", GRANULARITY_LABEL>>,
                        <<"pair", "limit", <<"int", 1>>>>}
  BY Zenon DEF Documented
<1>3. PICK a \in 1 .. 4 : query[a] = <<"pair", "start", v>>
  BY <1>2, Zenon
<1>4. PICK b \in 1 .. 4 : query[b] = <<"pair", "end", w>>
  BY <1>2, Zenon
<1>5. PICK c \in 1 .. 4 : query[c] = <<"pair", "granularity", GRANULARITY_LABEL>>
  BY <1>2, Zenon
<1>6. PICK d \in 1 .. 4 : query[d] = <<"pair", "limit", <<"int", 1>>>>
  BY <1>2, Zenon
<1>7. /\ query[a][1] = "pair" /\ query[a][2] = "start" /\ query[a][3] = v
      /\ query[b][1] = "pair" /\ query[b][2] = "end" /\ query[b][3] = w
      /\ query[c][1] = "pair" /\ query[c][2] = "granularity"
      /\ query[c][3] = GRANULARITY_LABEL
      /\ query[d][1] = "pair" /\ query[d][2] = "limit" /\ query[d][3] = <<"int", 1>>
  <2>1. PICK g, l : g = GRANULARITY_LABEL /\ l = <<"int", 1>>
    OBVIOUS
  <2>2. /\ query[c] = <<"pair", "granularity", g>>
        /\ query[d] = <<"pair", "limit", l>>
    BY <1>5, <1>6, <2>1, Zenon
  <2>3. /\ query[c][1] = "pair" /\ query[c][2] = "granularity" /\ query[c][3] = g
        /\ query[d][1] = "pair" /\ query[d][2] = "limit" /\ query[d][3] = l
    BY <2>2
  <2>4. /\ query[a][1] = "pair" /\ query[a][2] = "start" /\ query[a][3] = v
        /\ query[b][1] = "pair" /\ query[b][2] = "end" /\ query[b][3] = w
    BY <1>3, <1>4
  <2> QED
    BY <2>1, <2>3, <2>4, Zenon
<1>8. a # b /\ a # c /\ a # d /\ b # c /\ b # d /\ c # d
  BY <1>7
<1>9. \A i \in 1 .. 4 : i = a \/ i = b \/ i = c \/ i = d
  BY <1>8, AllPlaces
<1>10. Clean
  <2>1. \A i \in 1 .. 4 : query[i][1] = "pair"
    BY <1>7, <1>9, Zenon
  <2>2. \A i, j \in 1 .. 4 : query[i][2] = query[j][2] => i = j
    <3>1. /\ query[a][2] # query[b][2] /\ query[a][2] # query[c][2]
          /\ query[a][2] # query[d][2] /\ query[b][2] # query[c][2]
          /\ query[b][2] # query[d][2] /\ query[c][2] # query[d][2]
      BY <1>7
    <3> QED
      BY <1>9, <3>1, Zenon
  <2> QED
    BY <1>1, <2>1, <2>2, Zenon DEF Clean
<1>11. /\ parse_query(query).ok
       /\ DOMAIN Params = {query[i][2] : i \in 1 .. 4}
       /\ \A i \in 1 .. 4 : Params[query[i][2]] = query[i][3]
  BY <1>1, <1>10, CleanQuery, Zenon DEF Params
<1>12. /\ DOMAIN Params = {"start", "end", "granularity", "limit"}
       /\ Params["start"] = v /\ Params["end"] = w
       /\ Params["granularity"] = GRANULARITY_LABEL /\ Params["limit"] = <<"int", 1>>
  <2>1. DOMAIN Params = {query[a][2], query[b][2], query[c][2], query[d][2]}
    BY <1>9, <1>11
  <2>2. /\ Params[query[a][2]] = query[a][3] /\ Params[query[b][2]] = query[b][3]
        /\ Params[query[c][2]] = query[c][3] /\ Params[query[d][2]] = query[d][3]
    BY <1>11, Zenon
  <2>3. /\ Params["start"] = v /\ Params["end"] = w
        /\ Params["granularity"] = GRANULARITY_LABEL /\ Params["limit"] = <<"int", 1>>
    BY <1>7, <2>2, Zenon
  <2>4. DOMAIN Params = {"start", "end", "granularity", "limit"}
    BY <1>7, <2>1
  <2> QED
    BY <2>3, <2>4
<1>13. /\ v[1] \in {"int", "int_alias"} /\ v[2] = s
       /\ w[1] \in {"int", "int_alias"} /\ w[2] = s
  <2>1. ASSUME NEW x, x \in {<<"int", s>>, <<"int_alias", s>>}
        PROVE  x[1] \in {"int", "int_alias"} /\ x[2] = s
    BY <2>1
  <2>2. /\ v \in {<<"int", s>>, <<"int_alias", s>>}
        /\ w \in {<<"int", s>>, <<"int_alias", s>>}
    BY <1>2, Zenon DEF Reads
  <2> QED
    BY <2>1, <2>2, Zenon
<1>14. Start.ok /\ End.ok /\ Start.val = s /\ End.val = s
  <2>1. PICK p : p = Params
    OBVIOUS
  <2>2. /\ "start" \in DOMAIN p /\ p["start"][1] \in {"int", "int_alias"}
        /\ "end" \in DOMAIN p /\ p["end"][1] \in {"int", "int_alias"}
        /\ p["start"][2] = s /\ p["end"][2] = s
    BY <1>12, <1>13, <2>1, Zenon
  <2>3. /\ required_i64(p, "start").ok /\ required_i64(p, "end").ok
        /\ required_i64(p, "start").val = s /\ required_i64(p, "end").val = s
    BY <2>2, Required
  <2> QED
    BY <2>1, <2>3, Zenon DEF Start, End
<1>15. validate_request(s, s)
  <2>1. PICK k \in 0 .. s : s = k * GRANULARITY_SECONDS
    BY <1>1
  <2>2. PICK g : g = GRANULARITY_SECONDS
    OBVIOUS
  <2>3. g \in Nat /\ g > 0 /\ k \in Nat /\ s \in Nat
    BY <2>2, Granularity
  <2>4. (k * g) % g = 0
    BY <2>3
  <2>5. s % GRANULARITY_SECONDS = 0
    BY <2>1, <2>2, <2>4, Zenon
  <2> QED
    BY <2>3, <2>5 DEF validate_request
<1>16. path[1] = "product" /\ path[2] = PRODUCT_ID
  BY <1>1
<1> QED
  BY <1>1, <1>11, <1>12, <1>14, <1>15, <1>16, Zenon
  DEF Passes, QueryPasses, Parameters

\* Pieces are put behind a query one at a time.
LEMMA SpelledHolds == Spec => []Spelled
<1>1. Init => Spelled
  BY DEF Init, Spelled
<1>2. Spelled /\ [Next]_vars => Spelled'
  BY DEF Spelled, Next, Append1, vars
<1> QED
  BY <1>1, <1>2, PTL DEF Spec

\* parse_public_proof_request takes exactly the documented requests, for every
\* query of any length over any pieces, and for every granularity.
THEOREM ExactlyTheDocumented == Spec => []TakesExactlyTheDocumented
<1>1. Spelled => TakesExactlyTheDocumented
  <2> SUFFICES ASSUME Spelled PROVE TakesExactlyTheDocumented
    OBVIOUS
  <2>1. ASSUME Answer.ok
        PROVE  Documented(Answer.val.start) /\ Answer.val.end = Answer.val.start
    <3>1. Passes /\ Answer.val.start = Start.val /\ Answer.val.end = End.val
      BY <2>1, AnswerIs, Zenon
    <3>2. Documented(Start.val) /\ End.val = Start.val
      BY <3>1, TakenIsDocumented
    <3> QED
      BY <3>1, <3>2, Zenon
  <2>2. ASSUME NEW start \in 0 .. I64_MAX, Documented(start) PROVE Answer.ok
    BY <2>2, DocumentedIsTaken, AnswerIs, Zenon
  <2> QED
    BY <2>1, <2>2, Zenon DEF TakesExactlyTheDocumented
<1> QED
  BY <1>1, SpelledHolds, PTL
================================================================================
