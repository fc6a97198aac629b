---------------------------- MODULE ParserProofs ----------------------------
(***************************************************************************)
(* GetAcceptableMediaTypeFromHeader as a function of the header.  logout     *)
(* calls it twice for one answer, once for the status and once for the       *)
(* mapper of the body: whatever the header is, both calls come to the same   *)
(* end.  Without a header only the second is made.                           *)
(*                                                                         *)
(* The argument: a state of the parser has one successor (NextOf), and so    *)
(* one end; the end does not change while the parser goes on.                *)
(***************************************************************************)
EXTENDS NegotiationProofs

-----------------------------------------------------------------------------
(* The parser as a function from state to state.                             *)

ParserLabels == {"range", "parameters", "extensions", "select", "chosen"}

ParserState ==
    [pc : ParserLabels, s : Seq(Token), range : MediaRange \cup {Unset},
     weights : [1 .. 2 -> Entry \cup {Unset}], n : Nat, k : 1 .. 3, best : 0 .. 2,
     ranges : Seq(MediaRange)]

At(label, rest, r, w, count, turn, choose, rs) ==
    [pc |-> label, s |-> rest, range |-> r, weights |-> w, n |-> count, k |-> turn,
     best |-> choose, ranges |-> rs]

(* Where the parser stands.                                                  *)
Here == At(pc, s, range, weights, n, k, best, ranges)

(* Where it begins with the header t.                                        *)
StartOf(t) == At("range", t, Unset, [i \in 1 .. 2 |-> Unset], 0, 1, 0, <<>>)

FailOf(p) == At("chosen", p.s, p.range, p.weights, p.n, p.k, 0, p.ranges)

(* A state of the loops over the header: the label, the rest of the header   *)
(* and the range that is being read change, nothing else.                    *)
Reads(p, label, rest, r) ==
    At(label, rest, r, p.weights, p.n, p.k, p.best, p.ranges)

ElementOf(p) == SkipWhitespaces(IF p.n = 0 THEN p.s ELSE Tail(p.s))

ParameterOf(p) == SkipWhitespaces(Tail(p.s))

RangeOf(t) == [type |-> t[1], subtype |-> t[3], parameters |-> {}, weight |-> 1000]

AfterRange(p) ==
    IF p.s = <<>> THEN Reads(p, "select", p.s, p.range)
    ELSE IF (p.n > 0 => Starts(p.s, Comma)) /\ HasType(ElementOf(p))
    THEN Reads(p, "parameters", SkipWhitespaces(From(ElementOf(p), 4)),
               RangeOf(ElementOf(p)))
    ELSE FailOf(p)

AfterParameter(p) ==
    LET t == ParameterOf(p)
        rest == SkipWhitespaces(From(t, 4))
    IN  IF ~HasParameter(t) THEN FailOf(p)
        ELSE IF p.pc = "extensions" THEN Reads(p, p.pc, rest, p.range)
        ELSE IF t[1] # "q"
        THEN Reads(p, p.pc, rest,
                   [p.range EXCEPT !.parameters = Put(@, t[1], t[3])])
        ELSE IF t[3] \in DOMAIN Weight
        THEN Reads(p, "extensions", rest, [p.range EXCEPT !.weight = Weight[t[3]]])
        ELSE FailOf(p)

EntryFor(r, order) ==
    [type |-> r.type, subtype |-> r.subtype, parameters |-> r.parameters,
     weight |-> r.weight, order |-> order]

AfterElement(p) ==
    At("range", SkipWhitespaces(p.s), p.range,
       [i \in 1 .. 2 |->
          IF /\ CompareMediaTypes(p.range, <<Html, Json>>[i])
             /\ GetPrecedence(p.range, p.weights[i])
          THEN EntryFor(p.range, p.n) ELSE p.weights[i]],
       p.n + 1, p.k, p.best, Append(p.ranges, p.range))

BetterIn(w, i, j) ==
    \/ w[i].weight > w[j].weight
    \/ w[i].weight = w[j].weight /\ w[i].order < w[j].order

AfterSelect(p) ==
    IF p.k > 2 THEN Reads(p, "chosen", p.s, p.range)
    ELSE At(p.pc, p.s, p.range, p.weights, p.n, p.k + 1,
            IF \/ p.best # 0 /\ BetterIn(p.weights, p.k, p.best)
               \/ p.best = 0 /\ p.weights[p.k].weight > 0
            THEN p.k ELSE p.best,
            p.ranges)

NextOf(p) ==
    CASE p.pc = "range" -> AfterRange(p)
      [] p.pc \in {"parameters", "extensions"} ->
           IF Starts(p.s, Semicolon) THEN AfterParameter(p) ELSE AfterElement(p)
      [] p.pc = "select" -> AfterSelect(p)

-----------------------------------------------------------------------------
(* The ends that the parser comes to from state p: those in every set of     *)
(* states that it does not leave.                                            *)

Closed(D) == \A x \in D : x.pc # "chosen" => NextOf(x) \in D

Ends(p) == {t \in ParserState : /\ t.pc = "chosen"
                                /\ \A D \in SUBSET ParserState :
                                      p \in D /\ Closed(D) => t \in D}

(* A step does not change the end.                                           *)
LEMMA StepKeepsEnds ==
  ASSUME NEW p \in ParserState, p.pc # "chosen", NextOf(p) \in ParserState
  PROVE  Ends(NextOf(p)) = Ends(p)
  <1>. DEFINE q == NextOf(p)
  <1>1. ASSUME NEW t \in Ends(p) PROVE t \in Ends(q)
    <2>1. t \in ParserState /\ t.pc = "chosen" /\ t # p
      BY <1>1 DEF Ends
    <2>2. ASSUME NEW D \in SUBSET ParserState, q \in D, Closed(D) PROVE t \in D
      <3>1. Closed(D \cup {p})
        BY <2>2 DEF Closed
      <3>2. D \cup {p} \in SUBSET ParserState /\ p \in D \cup {p}
        OBVIOUS
      <3>3. t \in D \cup {p}
        <4>. HIDE DEF q
        <4>. QED  BY <1>1, <3>1, <3>2 DEF Ends
      <3>. QED  BY <2>1, <3>3
    <2>. HIDE DEF q
    <2>. QED  BY <2>1, <2>2 DEF Ends
  <1>2. ASSUME NEW t \in Ends(q) PROVE t \in Ends(p)
    <2>1. t \in ParserState /\ t.pc = "chosen"
      BY <1>2 DEF Ends
    <2>2. ASSUME NEW D \in SUBSET ParserState, p \in D, Closed(D) PROVE t \in D
      <3>1. q \in D
        BY <2>2 DEF Closed
      <3>. HIDE DEF q
      <3>. QED  BY <1>2, <2>2, <3>1 DEF Ends
    <2>. QED  BY <2>1, <2>2 DEF Ends
  <1>. HIDE DEF q
  <1>3. Ends(q) = Ends(p)
    BY <1>1, <1>2
  <1>. QED  BY <1>3 DEF q

(* The end of a parser that has ended is where it stands.                    *)
LEMMA EndOfEnded ==
  ASSUME NEW p \in ParserState, p.pc = "chosen"
  PROVE  Ends(p) = {p}
  <1>1. Closed({p}) /\ {p} \in SUBSET ParserState
    BY DEF Closed
  <1>2. \A t \in Ends(p) : t = p
    BY <1>1 DEF Ends
  <1>3. p \in Ends(p)
    BY DEF Ends
  <1>. QED  BY <1>2, <1>3

-----------------------------------------------------------------------------
(* What the model does is what NextOf says.                                  *)

Parsing == Fails \/ ConsumeType \/ ConsumeParameter \/ ConsumeWeight \/ ConsumeExtension
             \/ Weigh \/ EndOfHeader \/ Select \/ EndOfSelection

LEMMA HereIsParserState ==
  ASSUME TypeOK, LoopOK, pc \in ParserLabels
  PROVE  Here \in ParserState /\ list = <<Html, Json>>
  <1>1. list = <<Html, Json>>
    BY DEF LoopOK, ParserLabels, Reading
  <1>2. /\ s \in Seq(Token) /\ range \in MediaRange \cup {Unset}
        /\ weights \in [1 .. 2 -> Entry \cup {Unset}]
        /\ n \in Nat /\ k \in 1 .. 3 /\ best \in 0 .. 2 /\ ranges \in Seq(MediaRange)
    BY <1>1, TypesList, TypeOKParts DEF ChoiceOK
  <1>. QED  BY <1>1, <1>2 DEF Here, At, ParserState

LEMMA ParsingIsNextOf ==
  ASSUME TypeOK, LoopOK, Parsing
  PROVE  /\ pc \in ParserLabels /\ pc # "chosen" /\ pc' \in ParserLabels
         /\ Here' = NextOf(Here) /\ UNCHANGED <<request, caller, answer, list>>
  <1>1. /\ pc \in ParserLabels /\ pc # "chosen" /\ pc' \in ParserLabels
        /\ UNCHANGED <<request, caller, answer, list>>
    BY DEF Parsing, ParserLabels, Fails, ConsumeTypeFails, ConsumeParameterFails, Fail,
       ConsumeType, ConsumeParameter, ConsumeWeight, ConsumeExtension, Weigh,
       EndOfHeader, Select, EndOfSelection, choice
  <1>2. Here \in ParserState /\ list = <<Html, Json>>
    BY <1>1, HereIsParserState
  <1>. SUFFICES Here' = NextOf(Here)
    BY <1>1
  <1>f. /\ Here.pc = pc /\ Here.s = s /\ Here.range = range /\ Here.weights = weights
        /\ Here.n = n /\ Here.k = k /\ Here.best = best /\ Here.ranges = ranges
    BY DEF Here, At
  <1>e. ElementOf(Here) = NextElement /\ ParameterOf(Here) = Parameter
    BY <1>f DEF ElementOf, ParameterOf, NextElement, Parameter
  <1>n. /\ pc = "range" => NextOf(Here) = AfterRange(Here)
        /\ pc \in {"parameters", "extensions"} =>
             NextOf(Here) = IF Starts(s, Semicolon) THEN AfterParameter(Here)
                                                    ELSE AfterElement(Here)
        /\ pc = "select" => NextOf(Here) = AfterSelect(Here)
    BY <1>f DEF NextOf
  <1>3. CASE ConsumeType
    <2>1. Here' = Reads(Here, "parameters", SkipWhitespaces(From(NextElement, 4)),
                        RangeOf(NextElement))
      BY <1>3, <1>f DEF ConsumeType, Here, Reads, RangeOf
    <2>2. pc = "range" /\ s # <<>> /\ (n > 0 => Starts(s, Comma)) /\ HasType(NextElement)
      BY <1>3 DEF ConsumeType
    <2>. QED  BY <1>e, <1>f, <1>n, <2>1, <2>2 DEF AfterRange
  <1>4. CASE ConsumeTypeFails
    <2>1. Here' = FailOf(Here)
      BY <1>4, <1>f DEF ConsumeTypeFails, Fail, Here, FailOf
    <2>2. pc = "range" /\ s # <<>> /\ ~((n > 0 => Starts(s, Comma)) /\ HasType(NextElement))
      BY <1>4 DEF ConsumeTypeFails
    <2>. QED  BY <1>e, <1>f, <1>n, <2>1, <2>2 DEF AfterRange
  <1>5. CASE ConsumeParameter
    <2>1. Here' = Reads(Here, pc, SkipWhitespaces(From(Parameter, 4)),
                    [range EXCEPT !.parameters = Put(@, Parameter[1], Parameter[3])])
      BY <1>5, <1>f DEF ConsumeParameter, Here, Reads
    <2>2. /\ pc = "parameters" /\ Starts(s, Semicolon) /\ HasParameter(Parameter)
          /\ Parameter[1] # "q"
      BY <1>5 DEF ConsumeParameter
    <2>. QED  BY <1>e, <1>f, <1>n, <2>1, <2>2 DEF AfterParameter
  <1>6. CASE ConsumeWeight
    <2>1. Here' = Reads(Here, "extensions", SkipWhitespaces(From(Parameter, 4)),
                        [range EXCEPT !.weight = Weight[Parameter[3]]])
      BY <1>6, <1>f DEF ConsumeWeight, Here, Reads
    <2>2. /\ pc = "parameters" /\ Starts(s, Semicolon) /\ HasParameter(Parameter)
          /\ Parameter[1] = "q" /\ Parameter[3] \in DOMAIN Weight
      BY <1>6 DEF ConsumeWeight
    <2>. QED  BY <1>e, <1>f, <1>n, <2>1, <2>2 DEF AfterParameter
  <1>7. CASE ConsumeExtension
    <2>1. Here' = Reads(Here, pc, SkipWhitespaces(From(Parameter, 4)), range)
      BY <1>7, <1>f DEF ConsumeExtension, choice, Here, Reads
    <2>2. pc = "extensions" /\ Starts(s, Semicolon) /\ HasParameter(Parameter)
      BY <1>7 DEF ConsumeExtension
    <2>. QED  BY <1>e, <1>f, <1>n, <2>1, <2>2 DEF AfterParameter
  <1>8. CASE ConsumeParameterFails
    <2>1. Here' = FailOf(Here)
      BY <1>8, <1>f DEF ConsumeParameterFails, Fail, Here, FailOf
    <2>2. /\ pc \in {"parameters", "extensions"} /\ Starts(s, Semicolon)
          /\ HasParameter(Parameter) => /\ pc = "parameters" /\ Parameter[1] = "q"
                                        /\ Parameter[3] \notin DOMAIN Weight
      BY <1>8 DEF ConsumeParameterFails
    <2>. QED  BY <1>e, <1>f, <1>n, <2>1, <2>2 DEF AfterParameter
  <1>9. CASE Weigh
    <2>1. weights' = [i \in 1 .. 2 |->
             IF /\ CompareMediaTypes(range, <<Html, Json>>[i])
                /\ GetPrecedence(range, weights[i])
             THEN EntryFor(range, n) ELSE weights[i]]
      BY <1>9, <1>2, TypesList DEF Weigh, EntryFor
    <2>2. Here' = At("range", SkipWhitespaces(s), range, weights', n + 1, k, best,
                     Append(ranges, range))
      BY <1>9 DEF Weigh, Here
    <2>3. pc \in {"parameters", "extensions"} /\ ~Starts(s, Semicolon)
      BY <1>9 DEF Weigh
    <2>. QED  BY <1>f, <1>n, <2>1, <2>2, <2>3 DEF AfterElement
  <1>10. CASE EndOfHeader
    <2>1. Here' = Reads(Here, "select", s, range)
      BY <1>10, <1>f DEF EndOfHeader, choice, Here, Reads
    <2>. QED  BY <1>10, <1>f, <1>n, <2>1 DEF EndOfHeader, AfterRange
  <1>11. CASE Select
    <2>1. Here' = At(pc, s, range, weights, n, k + 1, best', ranges)
      BY <1>11 DEF Select, Here
    <2>2. /\ pc = "select" /\ ~(k > 2)
          /\ best' = IF \/ best # 0 /\ BetterIn(weights, k, best)
                        \/ best = 0 /\ weights[k].weight > 0
                     THEN k ELSE best
      <3>1. Len(list) = 2 /\ k \in Int
        BY <1>2, TypesList DEF Here, At, ParserState
      <3>. QED  BY <1>11, <3>1 DEF Select, Better, BetterIn
    <2>. QED  BY <1>f, <1>n, <2>1, <2>2 DEF AfterSelect
  <1>12. CASE EndOfSelection
    <2>1. Here' = Reads(Here, "chosen", s, range)
      BY <1>12, <1>f DEF EndOfSelection, choice, Here, Reads
    <2>2. pc = "select" /\ k > 2
      BY <1>12, <1>2, TypesList DEF EndOfSelection
    <2>. QED  BY <1>f, <1>n, <2>1, <2>2 DEF AfterSelect
  <1>. QED
    BY <1>3, <1>4, <1>5, <1>6, <1>7, <1>8, <1>9, <1>10, <1>11, <1>12
    DEF Parsing, Fails

-----------------------------------------------------------------------------
(* A logout with an Accept header: two calls, one after the other.           *)

(* The end of the calls, for the header of this request.                     *)
EndsOfAccept == Ends(StartOf(request.accept.tokens))

(* The status was chosen at that end.                                        *)
StatusOK == \E t \in ParserState :
    EndsOfAccept = {t} /\ status = IF t.best = 1 THEN 200 ELSE 204

Voice ==
    /\ pc \in {"handler", "mapping", "done"} \cup ParserLabels
    /\ pc = "handler" => mapper = "none"
    /\ pc = "mapping" => StatusOK
    /\ pc \in ParserLabels =>
         /\ Ends(Here) = EndsOfAccept
         /\ \/ caller = "logout" /\ mapper = "none"
            \/ caller = "mapper" /\ StatusOK
    /\ pc = "done" => \/ mapper = "html" /\ status = 200
                      \/ mapper = "json" /\ status = 204

(* Without a header the status is chosen without a call, and the mapper by a *)
(* call that reads nothing: no type gets a weight, and none is chosen.       *)
Silence ==
    /\ pc \in {"handler", "mapping", "range", "select", "chosen", "done"}
    /\ pc = "handler" => mapper = "none"
    /\ pc # "handler" => status = 200
    /\ pc \in {"range", "select", "chosen"} =>
         /\ caller = "mapper" /\ s = <<>> /\ best = 0
         /\ \A i \in 1 .. 2 : weights[i].weight = 0
    /\ pc = "done" => mapper = "json"

VoiceInv ==
    /\ request \in Requests
    /\ request.route = "logout" =>
         IF request.accept.present THEN Voice ELSE Silence

LEMMA HereNextIsParserState ==
  (TypeOK /\ LoopOK /\ pc \in ParserLabels => Here \in ParserState)'
  <1>1. TypeOK /\ LoopOK /\ pc \in ParserLabels => Here \in ParserState
    BY HereIsParserState
  <1>. QED  BY <1>1, PTL

(* The first type is the only one that counts as HTML.                       *)
LEMMA HtmlIsFirst ==
  ASSUME NEW b \in 0 .. 2
  PROVE  /\ (b # 0 /\ Matches(<<Html, Json>>[b], Html)) <=> b = 1
         /\ (b # 0 /\ Equal(Html, <<Html, Json>>[b])) <=> b = 1
  BY TypesList DEF Matches, Equal

LEMMA ParsingKeepsVoice ==
  ASSUME TypeOK, LoopOK, TypeOK', LoopOK', Voice, Parsing
  PROVE  Voice'
  <1>1. /\ pc \in ParserLabels /\ pc # "chosen" /\ pc' \in ParserLabels
        /\ Here' = NextOf(Here) /\ UNCHANGED <<request, caller, answer, list>>
    BY ParsingIsNextOf
  <1>2. Here \in ParserState /\ NextOf(Here) \in ParserState
    BY <1>1, HereIsParserState, HereNextIsParserState
  <1>3. Here.pc = pc
    BY DEF Here, At
  <1>4. Ends(Here') = Ends(Here)
    BY <1>1, <1>2, <1>3, StepKeepsEnds
  <1>5. EndsOfAccept' = EndsOfAccept
    BY <1>1 DEF EndsOfAccept, Ends, Closed
  <1>6. Ends(Here)' = Ends(Here')
    BY DEF Ends, Closed
  <1>7. StatusOK => StatusOK'
    BY <1>1, <1>5 DEF StatusOK, answer
  <1>8. pc' \notin {"handler", "mapping", "done"}
    BY <1>1 DEF ParserLabels
  <1>9. mapper' = mapper /\ caller' = caller
    BY <1>1 DEF answer
  <1>10. Ends(Here)' = EndsOfAccept'
    BY <1>1, <1>4, <1>5, <1>6 DEF Voice
  <1>. QED  BY <1>1, <1>7, <1>8, <1>9, <1>10 DEF Voice

LEMMA VoiceStep ==
  ASSUME TypeOK, LoopOK, TypeOK', LoopOK', [Next]_vars,
         request.route = "logout", request.accept.present, Voice
  PROVE  Voice'
  <1>0. request' = request
    BY RequestKept
  <1>1. EndsOfAccept' = EndsOfAccept
    BY <1>0 DEF EndsOfAccept, Ends, Closed
  <1>2. CASE Parsing
    BY <1>2, ParsingKeepsVoice
  <1>3. CASE Logout
    <2>1. /\ pc = "handler" /\ pc' = "range" /\ caller' = "logout" /\ UNCHANGED answer
          /\ Here' = StartOf(request.accept.tokens)
      BY <1>3, TypesList DEF Logout, Negotiate, Here, StartOf
    <2>2. Ends(Here)' = EndsOfAccept'
      BY <1>0, <2>1 DEF EndsOfAccept, Ends, Closed
    <2>. QED  BY <2>1, <2>2 DEF Voice, ParserLabels, answer
  <1>4. CASE GetMapper
    <2>1. /\ pc = "mapping" /\ pc' = "range" /\ caller' = "mapper" /\ UNCHANGED answer
          /\ Here' = StartOf(request.accept.tokens)
      BY <1>4, TypesList DEF GetMapper, Negotiate, Here, StartOf
    <2>2. Ends(Here)' = EndsOfAccept'
      BY <1>0, <2>1 DEF EndsOfAccept, Ends, Closed
    <2>3. StatusOK'
      BY <1>1, <2>1 DEF Voice, StatusOK, answer
    <2>. QED  BY <2>1, <2>2, <2>3 DEF Voice, ParserLabels
  <1>5. CASE LogoutStatus
    <2>1. pc = "chosen" /\ caller = "logout" /\ mapper = "none" /\ pc' = "mapping"
          /\ status' = IF best # 0 /\ Matches(list[best], Html) THEN 200 ELSE 204
      BY <1>5 DEF LogoutStatus, Return, Voice, ParserLabels
    <2>2. Here \in ParserState /\ list = <<Html, Json>> /\ best \in 0 .. 2
          /\ Here.pc = "chosen" /\ Here.best = best
      <3>1. Here \in ParserState /\ list = <<Html, Json>>
        BY <2>1, HereIsParserState DEF ParserLabels
      <3>. QED  BY <2>1, <3>1 DEF Here, At, ParserState
    <2>3. EndsOfAccept = {Here}
      BY <2>1, <2>2, EndOfEnded DEF Voice, ParserLabels
    <2>4. status' = IF Here.best = 1 THEN 200 ELSE 204
      BY <2>1, <2>2, HtmlIsFirst
    <2>5. StatusOK'
      BY <1>1, <2>2, <2>3, <2>4 DEF StatusOK
    <2>. QED  BY <2>1, <2>5 DEF Voice, ParserLabels
  <1>6. CASE MatchByAcceptHeader
    <2>1. /\ pc = "chosen" /\ caller = "mapper" /\ pc' = "done" /\ status' = status
          /\ mapper' = IF best # 0 /\ Equal(Html, list[best]) THEN "html" ELSE "json"
      BY <1>6 DEF MatchByAcceptHeader
    <2>2. Here \in ParserState /\ list = <<Html, Json>> /\ best \in 0 .. 2
          /\ Here.pc = "chosen" /\ Here.best = best
      <3>1. Here \in ParserState /\ list = <<Html, Json>>
        BY <2>1, HereIsParserState DEF ParserLabels
      <3>. QED  BY <2>1, <3>1 DEF Here, At, ParserState
    <2>3. EndsOfAccept = {Here}
      BY <2>1, <2>2, EndOfEnded DEF Voice, ParserLabels
    <2>4. PICK t \in ParserState : EndsOfAccept = {t} /\ status = IF t.best = 1 THEN 200 ELSE 204
      BY <2>1 DEF Voice, StatusOK, ParserLabels
    <2>5. t.best = best
      BY <2>2, <2>3, <2>4
    <2>6. mapper' = IF best = 1 THEN "html" ELSE "json"
      BY <2>1, <2>2, HtmlIsFirst
    <2>. QED  BY <2>1, <2>4, <2>5, <2>6 DEF Voice, ParserLabels
  <1>7. CASE UNCHANGED vars
    <2>1. UNCHANGED <<pc, s, range, weights, n, k, best, ranges, caller, mapper, status>>
      BY <1>7 DEF vars, choice, answer
    <2>2. Here' = Here /\ (StatusOK => StatusOK')
      BY <1>1, <2>1 DEF Here, StatusOK
    <2>3. Ends(Here)' = Ends(Here)
      BY <2>2 DEF Ends, Closed
    <2>. QED  BY <1>1, <2>1, <2>2, <2>3 DEF Voice
  <1>8. CASE \/ LogoutWithoutAccept \/ WithoutContentType \/ ParseType
             \/ ParseParameter \/ ParseFails \/ EndOfContentType \/ ReadBody
    <2>1. pc \in {"handler", "bodyParameters", "read"}
      BY <1>8 DEF LogoutWithoutAccept, WithoutContentType, ParseType, ParseParameter,
         ParseFails, EndOfContentType, ReadBody
    <2>2. pc = "handler"
      BY <2>1 DEF Voice, ParserLabels
    <2>. QED  BY <1>8, <2>2 DEF LogoutWithoutAccept, WithoutContentType, ParseType,
              ParseParameter, ParseFails, EndOfContentType, ReadBody
  <1>. QED  BY <1>2, <1>3, <1>4, <1>5, <1>6, <1>7, <1>8
            DEF Next, Step, Terminating, Parsing, Fails

LEMMA SilenceStep ==
  ASSUME TypeOK, LoopOK, [Next]_vars,
         request \in Requests, request.route = "logout", ~request.accept.present, Silence
  PROVE  Silence'
  <1>0. request' = request
    BY RequestKept
  <1>1. CASE Fails \/ ConsumeType \/ ConsumeParameter \/ ConsumeWeight
             \/ ConsumeExtension \/ Weigh
    BY <1>1 DEF Silence, Fails, ConsumeTypeFails, ConsumeParameterFails, ConsumeType,
       ConsumeParameter, ConsumeWeight, ConsumeExtension, Weigh
  <1>2. CASE EndOfHeader \/ EndOfSelection
    BY <1>2 DEF Silence, EndOfHeader, EndOfSelection, choice, answer
  <1>3. CASE Select
    <2>1. k \in 1 .. 2 /\ weights[k].weight = 0 /\ best = 0
      <3>1. pc = "select" /\ k <= Len(list) /\ k \in 1 .. 3 /\ list = <<Html, Json>>
        BY <1>3, HereIsParserState DEF Select, ParserLabels, Here, At, ParserState
      <3>. QED  BY <1>3, <3>1 DEF Silence
    <2>2. best' = 0
      BY <1>3, <2>1 DEF Select
    <2>. QED  BY <1>3, <2>2 DEF Silence, Select, answer
  <1>4. CASE GetMapper
    <2>1. request.accept.tokens = <<>>
      BY NoHeaderAssumption
    <2>2. /\ pc' = "range" /\ caller' = "mapper" /\ s' = <<>> /\ best' = 0
          /\ weights' = [i \in DOMAIN AllowedMediaTypes |-> Unset]
          /\ pc = "mapping" /\ UNCHANGED answer
      BY <1>4, <2>1 DEF GetMapper, Negotiate
    <2>3. \A i \in 1 .. 2 : weights'[i].weight = 0
      BY <2>2, TypesList DEF Unset
    <2>. QED  BY <2>2, <2>3 DEF Silence, answer
  <1>5. CASE MatchByAcceptHeader
    BY <1>5 DEF Silence, MatchByAcceptHeader
  <1>6. CASE LogoutWithoutAccept
    <2>1. status' = 200
      BY <1>6, TypesList DEF LogoutWithoutAccept, Matches, AllowedMediaTypes
    <2>. QED  BY <1>6, <2>1 DEF LogoutWithoutAccept, Silence, Return
  <1>7. CASE LogoutStatus \/ Logout
    BY <1>7 DEF Silence, LogoutStatus, Logout
  <1>8. CASE \/ WithoutContentType \/ ParseType
             \/ ParseParameter \/ ParseFails \/ EndOfContentType \/ ReadBody
    BY <1>8 DEF Silence, WithoutContentType, ParseType, ParseParameter, ParseFails,
       EndOfContentType, ReadBody
  <1>9. CASE UNCHANGED vars
    BY <1>9 DEF Silence, vars, choice, answer
  <1>. QED  BY <1>1, <1>2, <1>3, <1>4, <1>5, <1>6, <1>7, <1>8, <1>9
            DEF Next, Step, Terminating, Fails

(* Whatever the Accept header is, well formed or not, the two parses of it   *)
(* agree, and logout answers with a page and 200, or with nothing and 204;   *)
(* without the header it answers with nothing and 200.                       *)
THEOREM LogoutAnswers == Spec => []LogoutStatusAndBody
  <1>1. Init => VoiceInv
    BY DEF Init, VoiceInv, Voice, Silence, ParserLabels
  <1>2. IInv /\ IInv' /\ VoiceInv /\ [Next]_vars => VoiceInv'
    <2>. SUFFICES ASSUME IInv, IInv', VoiceInv, [Next]_vars, request'.route = "logout"
                  PROVE  (IF request.accept.present THEN Voice ELSE Silence)'
      BY RequestKept DEF VoiceInv
    <2>1. request' = request /\ request.route = "logout" /\ request \in Requests
      BY RequestKept DEF VoiceInv
    <2>2. CASE request.accept.present
      BY <2>1, <2>2, VoiceStep DEF IInv, VoiceInv
    <2>3. CASE ~request.accept.present
      BY <2>1, <2>3, SilenceStep DEF IInv, VoiceInv
    <2>. QED  BY <2>2, <2>3
  <1>3. VoiceInv => LogoutStatusAndBody
    BY DEF VoiceInv, Voice, Silence, LogoutStatusAndBody
  <1>. QED  BY <1>1, <1>2, <1>3, Invariance, PTL DEF Spec

-----------------------------------------------------------------------------
(* No step goes round in a circle.  A request goes through at most two        *)
(* rounds, one for its body or the status and one for the mapper, a round     *)
(* through phases, and a phase over what is left of a header or of the list.  *)

BodyLabels == {"handler", "bodyParameters", "read"}

ForMapper == pc = "mapping" \/ (pc \in ParserLabels /\ caller = "mapper")

Round ==
    IF pc = "done" THEN 0
    ELSE IF \/ request.route = "addItem" /\ pc \in BodyLabels
            \/ request.route # "addItem" /\ ForMapper
         THEN 1 ELSE 2

Phase == CASE pc = "handler" -> 4
           [] pc = "mapping" -> 3
           [] pc \in Reading \cup {"bodyParameters"} -> 2
           [] pc \in {"select", "read"} -> 1
           [] OTHER -> 0

Left == CASE pc \in {"range", "bodyParameters"} -> 2 * Len(s)
          [] pc \in {"parameters", "extensions"} -> 2 * Len(s) + 1
          [] pc = "select" -> 3 - k
          [] OTHER -> 0

Nearer ==
    \/ Round' < Round
    \/ Round' = Round /\ Phase' < Phase
    \/ Round' = Round /\ Phase' = Phase /\ Left' < Left

(* The mapper of the answer is chosen once, and last unless the route is      *)
(* addItem.                                                                  *)
CallOK ==
    /\ pc \in ParserLabels \cup {"mapping"} => mapper = "none"
    /\ pc \in ParserLabels =>
         caller = "mapper" \/ (caller = "logout" /\ request.route = "logout")
    /\ pc \in BodyLabels => (mapper = "none" <=> request.route # "addItem")
    /\ pc \in BodyLabels \ {"handler"} => request.route # "logout"

LEMMA CallStep ==
  ASSUME TypeOK, CallOK, [Next]_vars
  PROVE  CallOK'
  <1>0. request' = request /\ request.route \in {"addItem", "login", "logout"}
    BY RequestKept, HeaderTypes
  <1>1. CASE Parsing
    <2>1. pc \in ParserLabels /\ pc' \in ParserLabels /\ UNCHANGED <<caller, mapper>>
      BY <1>1 DEF Parsing, ParserLabels, Fails, ConsumeTypeFails, ConsumeParameterFails,
         Fail, ConsumeType, ConsumeParameter, ConsumeWeight, ConsumeExtension, Weigh,
         EndOfHeader, Select, EndOfSelection, choice, answer
    <2>. QED  BY <1>0, <2>1 DEF CallOK, ParserLabels, BodyLabels
  <1>2. CASE GetMapper \/ Logout
    BY <1>0, <1>2 DEF CallOK, ParserLabels, BodyLabels, GetMapper, Logout, Negotiate, answer
  <1>3. CASE MatchByAcceptHeader
    BY <1>0, <1>3 DEF CallOK, ParserLabels, BodyLabels, MatchByAcceptHeader, choice
  <1>4. CASE LogoutWithoutAccept \/ LogoutStatus
    BY <1>0, <1>4
    DEF CallOK, ParserLabels, BodyLabels, LogoutWithoutAccept, LogoutStatus, Return, choice
  <1>5. CASE \/ WithoutContentType \/ ParseType \/ ParseParameter \/ ParseFails
             \/ EndOfContentType \/ ReadBody
    BY <1>0, <1>5
    DEF CallOK, ParserLabels, BodyLabels, WithoutContentType, ParseType, ParseParameter,
        ParseFails, EndOfContentType, ReadBody, Return, choice, answer
  <1>6. CASE UNCHANGED vars
    BY <1>6 DEF CallOK, vars, choice, answer
  <1>. QED  BY <1>1, <1>2, <1>3, <1>4, <1>5, <1>6 DEF Next, Step, Terminating, Parsing, Fails

-----------------------------------------------------------------------------
(* What is left of a header gets shorter.                                    *)

LEMMA SkipShortens ==
  ASSUME NEW t \in Seq(Token)
  PROVE  /\ Len(SkipWhitespaces(t)) \in Nat /\ Len(t) \in Nat
         /\ Len(SkipWhitespaces(t)) <= Len(t)
  <1>1. Len(t) \in Nat
    BY LenProperties
  <1>2. CASE Starts(t, " ")
    <2>1. t # <<>> /\ SkipWhitespaces(t) = Tail(t)
      BY <1>2 DEF SkipWhitespaces, Starts
    <2>2. Len(Tail(t)) = Len(t) - 1 /\ Len(t) \in Nat \ {0}
      BY <2>1, HeadTailProperties, EmptySeq
    <2>. QED  BY <2>1, <2>2
  <1>3. CASE ~Starts(t, " ")
    <2>1. SkipWhitespaces(t) = t
      BY <1>3 DEF SkipWhitespaces
    <2>. QED  BY <1>1, <2>1
  <1>. QED  BY <1>2, <1>3

LEMMA TakenIsGone ==
  ASSUME NEW t \in Seq(Token), Len(t) >= 3
  PROVE  /\ Len(SkipWhitespaces(From(t, 4))) \in Nat
         /\ Len(SkipWhitespaces(From(t, 4))) < Len(t)
  <1>1. Len(t) \in Nat
    BY LenProperties
  <1>2. From(t, 4) \in Seq(Token)
    BY FromType
  <1>3. Len(From(t, 4)) < Len(t)
    <2>1. \A i \in 4 .. Len(t) : t[i] \in Token
      BY <1>1, ElementOfSeq
    <2>2. Len(SubSeq(t, 4, Len(t))) = IF 4 <= Len(t) THEN Len(t) - 4 + 1 ELSE 0
      BY <1>1, <2>1, SubSeqProperties
    <2>. QED  BY <1>1, <2>2 DEF From
  <1>4. PICK m \in Nat : m = Len(SkipWhitespaces(From(t, 4))) /\ m <= Len(From(t, 4))
    BY <1>2, SkipShortens
  <1>5. Len(From(t, 4)) \in Nat
    BY <1>2, LenProperties
  <1>. QED  BY <1>1, <1>3, <1>4, <1>5

LEMMA TailShortens ==
  ASSUME NEW t \in Seq(Token), NEW c, Starts(t, c)
  PROVE  /\ Len(SkipWhitespaces(Tail(t))) \in Nat
         /\ Len(SkipWhitespaces(Tail(t))) <= Len(t)
  <1>1. Tail(t) \in Seq(Token) /\ Len(Tail(t)) = Len(t) - 1 /\ Len(t) \in Nat
    BY HeadTailProperties, TailType, LenProperties DEF Starts
  <1>2. PICK m \in Nat : m = Len(SkipWhitespaces(Tail(t))) /\ m <= Len(Tail(t))
    BY <1>1, SkipShortens
  <1>. QED  BY <1>1, <1>2

(* Every turn over a header takes at least three tokens.                     *)
LEMMA TurnTakes ==
  ASSUME TypeOK
  PROVE  /\ Len(s) \in Nat
         /\ \/ ConsumeType \/ ConsumeParameter \/ ConsumeWeight \/ ConsumeExtension
            \/ ParseParameter
            => Len(s') \in Nat /\ Len(s') < Len(s)
         /\ Weigh => Len(s') \in Nat /\ Len(s') <= Len(s)
  <1>1. s \in Seq(Token) /\ Len(s) \in Nat /\ n \in Nat
    BY LenProperties DEF TypeOK
  <1>2. ASSUME ConsumeType PROVE Len(s') \in Nat /\ Len(s') < Len(s)
    <2>1. NextElement \in Seq(Token) /\ HasType(NextElement)
          /\ s' = SkipWhitespaces(From(NextElement, 4))
      BY <1>2, NextElementType DEF ConsumeType
    <2>2. Len(NextElement) <= Len(s) /\ Len(NextElement) \in Nat
      <3>1. CASE n = 0
        BY <1>1, <3>1, SkipShortens DEF NextElement
      <3>2. CASE n # 0
        <4>1. Starts(s, Comma)
          BY <1>1, <1>2, <3>2 DEF ConsumeType
        <4>. QED  BY <1>1, <3>2, <4>1, TailShortens DEF NextElement
      <3>. QED  BY <3>1, <3>2
    <2>3. Len(NextElement) >= 3
      BY <2>1 DEF HasType
    <2>4. Len(s') \in Nat /\ Len(s') < Len(NextElement)
      BY <2>1, <2>3, TakenIsGone
    <2>. QED  BY <1>1, <2>2, <2>4
  <1>3. ASSUME ConsumeParameter \/ ConsumeWeight \/ ConsumeExtension \/ ParseParameter
        PROVE  Len(s') \in Nat /\ Len(s') < Len(s)
    <2>1. /\ Starts(s, Semicolon) /\ HasParameter(Parameter)
          /\ s' = SkipWhitespaces(From(Parameter, 4))
      BY <1>3 DEF ConsumeParameter, ConsumeWeight, ConsumeExtension, ParseParameter
    <2>2. Parameter \in Seq(Token) /\ Len(Parameter) <= Len(s) /\ Len(Parameter) \in Nat
      BY <1>1, <2>1, ParameterType, TailShortens DEF Parameter
    <2>3. Len(Parameter) >= 3
      BY <2>1 DEF HasParameter
    <2>4. Len(s') \in Nat /\ Len(s') < Len(Parameter)
      BY <2>1, <2>2, <2>3, TakenIsGone
    <2>. QED  BY <1>1, <2>2, <2>4
  <1>4. ASSUME Weigh PROVE Len(s') \in Nat /\ Len(s') <= Len(s)
    BY <1>1, <1>4, SkipShortens DEF Weigh
  <1>. QED  BY <1>1, <1>2, <1>3, <1>4

LEMMA LeftIsNatural ==
  ASSUME TypeOK, LoopOK
  PROVE  Left \in Nat
  <1>1. PICK l \in Nat : l = Len(s)
    BY TurnTakes
  <1>2. pc = "select" => k \in 1 .. 3
    BY HereIsParserState DEF ParserLabels, Here, At, ParserState
  <1>. QED  BY <1>1, <1>2 DEF Left

LEMMA StepIsNearer ==
  ASSUME TypeOK, LoopOK, CallOK, Step
  PROVE  Nearer
  <1>0. request' = request /\ request.route \in {"addItem", "login", "logout"}
    <2>1. [Next]_vars
      BY DEF Next
    <2>. QED  BY <2>1, RequestKept, HeaderTypes
  <1>1. CASE ConsumeType \/ ConsumeParameter \/ ConsumeWeight \/ ConsumeExtension \/ Weigh
    <2>1. /\ pc \in Reading /\ pc' \in Reading /\ caller' = caller
          /\ Weigh => pc # "range" /\ pc' = "range"
      BY <1>1 DEF ConsumeType, ConsumeParameter, ConsumeWeight, ConsumeExtension, Weigh,
         Reading, choice
    <2>2. Round' = Round
      BY <1>0, <2>1 DEF Round, ForMapper, BodyLabels, ParserLabels, Reading
    <2>3. Phase = 2 /\ Phase' = 2
      BY <2>1 DEF Phase, Reading
    <2>4. PICK l \in Nat, m \in Nat :
             l = Len(s) /\ m = Len(s') /\ m <= l /\ (Weigh \/ m < l)
      BY <1>1, TurnTakes
    <2>5. Left = (IF pc = "range" THEN 2 * l ELSE 2 * l + 1)
      BY <2>1, <2>4 DEF Left, Reading
    <2>6. Left' = (IF pc' = "range" THEN 2 * m ELSE 2 * m + 1)
      BY <2>1, <2>4 DEF Left, Reading
    <2>7. Left' < Left
      BY <2>1, <2>4, <2>5, <2>6
    <2>. QED  BY <2>2, <2>3, <2>7 DEF Nearer
  <1>2. CASE Fails \/ EndOfHeader \/ EndOfSelection
    <2>1. /\ pc \in Reading \cup {"select"} /\ caller' = caller
          /\ \/ pc \in Reading /\ pc' \in {"select", "chosen"}
             \/ pc = "select" /\ pc' = "chosen"
      BY <1>2 DEF Fails, ConsumeTypeFails, ConsumeParameterFails, Fail, EndOfHeader,
         EndOfSelection, Reading, choice
    <2>2. Round' = Round
      BY <1>0, <2>1 DEF Round, ForMapper, BodyLabels, ParserLabels, Reading
    <2>3. Phase' < Phase
      BY <2>1 DEF Phase, Reading
    <2>. QED  BY <2>2, <2>3 DEF Nearer
  <1>3. CASE Select
    <2>1. pc = "select" /\ pc' = "select" /\ caller' = caller /\ k' = k + 1
      BY <1>3 DEF Select
    <2>2. Round' = Round /\ Phase' = Phase
      BY <1>0, <2>1 DEF Round, ForMapper, BodyLabels, ParserLabels, Phase, Reading
    <2>3. k \in 1 .. 3
      BY <2>1, HereIsParserState DEF ParserLabels, Here, At, ParserState
    <2>4. Left' < Left
      BY <2>1, <2>3 DEF Left
    <2>. QED  BY <2>2, <2>4 DEF Nearer
  <1>4. CASE GetMapper \/ Logout
    <2>1. /\ pc' = "range"
          /\ \/ pc = "mapping" /\ caller' = "mapper"
             \/ pc = "handler" /\ caller' = "logout" /\ request.route = "logout"
      BY <1>4 DEF GetMapper, Logout, Negotiate
    <2>2. Round' = Round
      BY <1>0, <2>1 DEF Round, ForMapper, BodyLabels, ParserLabels
    <2>3. Phase' < Phase
      BY <2>1 DEF Phase, Reading
    <2>. QED  BY <2>2, <2>3 DEF Nearer
  <1>5. CASE MatchByAcceptHeader
    <2>1. /\ pc = "chosen" /\ caller = "mapper"
          /\ pc' = IF request.route = "addItem" THEN "handler" ELSE "done"
      BY <1>5 DEF MatchByAcceptHeader
    <2>2. Round' < Round
      BY <1>0, <2>1 DEF Round, ForMapper, BodyLabels, ParserLabels
    <2>. QED  BY <2>2 DEF Nearer
  <1>6. CASE LogoutWithoutAccept \/ LogoutStatus
    <2>1. /\ \/ pc = "handler" /\ request.route = "logout"
             \/ pc = "chosen" /\ caller = "logout"
          /\ pc' = IF mapper = "none" THEN "mapping" ELSE "done"
      BY <1>6 DEF LogoutWithoutAccept, LogoutStatus, Return
    <2>2. Round = 2 /\ Round' = 1
      BY <1>0, <2>1 DEF CallOK, Round, ForMapper, BodyLabels, ParserLabels
    <2>. QED  BY <2>2 DEF Nearer
  <1>7. CASE WithoutContentType \/ ParseType \/ EndOfContentType
    <2>1. /\ request.route # "logout"
          /\ \/ pc = "handler" /\ pc' \in {"bodyParameters", "read"}
             \/ pc = "bodyParameters" /\ pc' = "read"
      BY <1>7 DEF WithoutContentType, ParseType, EndOfContentType, CallOK, BodyLabels
    <2>2. Round' = Round
      BY <1>0, <2>1 DEF Round, ForMapper, BodyLabels, ParserLabels
    <2>3. Phase' < Phase
      BY <2>1 DEF Phase, Reading
    <2>. QED  BY <2>2, <2>3 DEF Nearer
  <1>8. CASE ParseParameter
    <2>1. pc = "bodyParameters" /\ pc' = "bodyParameters"
      BY <1>8 DEF ParseParameter
    <2>2. Round' = Round /\ Phase' = Phase
      BY <1>0, <2>1 DEF Round, ForMapper, BodyLabels, ParserLabels, Phase, Reading
    <2>3. PICK l \in Nat, m \in Nat : l = Len(s) /\ m = Len(s') /\ m < l
      BY <1>8, TurnTakes
    <2>4. Left = 2 * l /\ Left' = 2 * m
      BY <2>1, <2>3 DEF Left
    <2>. QED  BY <2>2, <2>3, <2>4 DEF Nearer
  <1>9. CASE ParseFails \/ ReadBody
    <2>1. /\ pc \in BodyLabels /\ request.route # "logout"
          /\ pc' = IF mapper = "none" THEN "mapping" ELSE "done"
      BY <1>9 DEF ParseFails, ReadBody, Return, CallOK, BodyLabels
    <2>2. Round' < Round
      BY <1>0, <2>1 DEF CallOK, Round, ForMapper, BodyLabels, ParserLabels
    <2>. QED  BY <2>2 DEF Nearer
  <1>. QED  BY <1>1, <1>2, <1>3, <1>4, <1>5, <1>6, <1>7, <1>8, <1>9 DEF Step, Fails

(* Whatever the headers are and however long, each step brings the answer    *)
(* nearer: no parser stands still on a token, and nothing is done twice but  *)
(* the look at the Accept header in a logout.  Round and Phase are below 5,  *)
(* so it cannot come nearer for ever.                                        *)
THEOREM EveryStepIsNearer == Spec => [](Left \in Nat) /\ [][Step => Nearer]_vars
  <1>1. Init => CallOK
    BY DEF Init, CallOK, ParserLabels, BodyLabels
  <1>2. IInv /\ CallOK /\ [Next]_vars => CallOK'
    BY CallStep DEF IInv
  <1>3. IInv /\ CallOK /\ [Next]_vars => [Step => Nearer]_vars
    BY StepIsNearer DEF IInv
  <1>4. IInv => Left \in Nat
    BY LeftIsNatural DEF IInv
  <1>. QED  BY <1>1, <1>2, <1>3, <1>4, Invariance, PTL DEF Spec
=============================================================================
