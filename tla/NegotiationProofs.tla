-------------------------- MODULE NegotiationProofs --------------------------
(***************************************************************************)
(* What Negotiation guarantees for headers of any length, over any words.    *)
(*                                                                           *)
(* The argument: of the ranges read so far, the one kept for an available    *)
(* type is the first of the most specific ones that take the type in (Kept), *)
(* although getPrecedence compares one property after the other; the loop    *)
(* that chooses then only has to compare what was kept.                      *)
(***************************************************************************)
EXTENDS Negotiation, FiniteSetTheorems, SequenceTheorems, TLAPS

(* What consumeType lets pass: no wildcard with a subtype of its own.        *)
Proper(r) == r \in MediaRange /\ (r.type = "*" => r.subtype = "*")

(* What is kept of the range j.                                              *)
EntryOf(j) ==
    [type |-> ranges[j].type, subtype |-> ranges[j].subtype,
     parameters |-> ranges[j].parameters, weight |-> ranges[j].weight,
     order |-> j - 1]

Kept(i) ==
    \/ weights[i] = Unset /\ Matching(i) = {}
    \/ \E j \in DOMAIN ranges : Decides(j, i) /\ weights[i] = EntryOf(j)

(* The choice among the types before k.                                      *)
ChosenSoFar ==
    IF best = 0 THEN \A i \in 1 .. k - 1 : weights[i].weight = 0
    ELSE /\ best \in 1 .. k - 1
         /\ weights[best].weight > 0
         /\ \A i \in 1 .. k - 1 : ~Better(i, best)

Reading == {"range", "parameters", "extensions"}

RangesOK ==
    /\ \A j \in DOMAIN ranges : Proper(ranges[j])
    /\ pc \in {"parameters", "extensions"} => Proper(range)
    /\ n = Len(ranges)

LoopOK ==
    /\ pc \in Reading \cup {"select"} => /\ list = <<Html, Json>>
                                         /\ \A i \in 1 .. 2 : Kept(i)
    /\ pc \in Reading => best = 0 /\ k = 1
    /\ pc = "select" => ChosenSoFar
    /\ pc = "chosen" => list = <<Html, Json>>

IInv == TypeOK /\ RangesOK /\ LoopOK /\ BestTypeChosen

-----------------------------------------------------------------------------
(* Pieces of a header.                                                       *)

LEMMA NoEmptyWord == "" \notin Words
  BY WordsAssumption

LEMMA UnsetType == Unset.type = ""
  BY DEF Unset

LEMMA UnsetFields == Unset.weight = 0 /\ Unset.order = 0
  BY DEF Unset

LEMMA TypesList ==
  /\ AllowedMediaTypes = <<Html, Json>>
  /\ Len(<<Html, Json>>) = 2 /\ DOMAIN <<Html, Json>> = 1 .. 2
  /\ <<Html, Json>>[1] = Html /\ <<Html, Json>>[2] = Json
  /\ Html.parameters = {} /\ Json.parameters = {}
  /\ Html.type = "text" /\ Html.subtype = "html"
  /\ Json.type = "application" /\ Json.subtype = "json"
  BY DEF AllowedMediaTypes, Html, Json

LEMMA TailType ==
  ASSUME NEW t \in Seq(Token), NEW c, Starts(t, c)
  PROVE  Tail(t) \in Seq(Token)
  BY HeadTailProperties DEF Starts

LEMMA SkipWhitespacesType ==
  ASSUME NEW t \in Seq(Token)
  PROVE  SkipWhitespaces(t) \in Seq(Token)
  <1>1. CASE Starts(t, " ")
    BY <1>1, TailType DEF SkipWhitespaces
  <1>2. CASE ~Starts(t, " ")
    BY <1>2 DEF SkipWhitespaces
  <1>. QED  BY <1>1, <1>2

LEMMA FromType ==
  ASSUME NEW t \in Seq(Token), Len(t) >= 3
  PROVE  From(t, 4) \in Seq(Token)
  BY SubSeqProperties DEF From

LEMMA HasTypeParts ==
  ASSUME NEW t \in Seq(Token), HasType(t)
  PROVE  /\ t[1] \in Words /\ t[3] \in Words /\ (t[1] = "*" => t[3] = "*")
         /\ SkipWhitespaces(From(t, 4)) \in Seq(Token)
  BY FromType, SkipWhitespacesType DEF HasType

LEMMA HasParameterParts ==
  ASSUME NEW t \in Seq(Token), HasParameter(t)
  PROVE  /\ t[1] \in Words /\ t[3] \in Words
         /\ SkipWhitespaces(From(t, 4)) \in Seq(Token)
  BY FromType, SkipWhitespacesType DEF HasParameter

LEMMA PutType ==
  ASSUME NEW P \in Parameters, NEW a \in Words, NEW b \in Words
  PROVE  Put(P, a, b) \in Parameters
  BY DEF Put, Parameters

LEMMA HeaderTypes ==
  ASSUME TypeOK
  PROVE  /\ request.accept.tokens \in Seq(Token)
         /\ request.contentType.tokens \in Seq(Token)
         /\ request.route \in {"addItem", "login", "logout"}
  BY DEF TypeOK, Request, Header

LEMMA NextElementType ==
  ASSUME TypeOK, n > 0 => Starts(s, Comma)
  PROVE  NextElement \in Seq(Token)
  <1>0. s \in Seq(Token)
    BY DEF TypeOK
  <1>a. n \in Nat
    BY DEF TypeOK
  <1>b. n = 0 \/ n > 0
    BY <1>a
  <1>1. CASE n = 0
    BY <1>0, <1>1, SkipWhitespacesType DEF NextElement
  <1>2. CASE n # 0
    <2>1. Tail(s) \in Seq(Token)
      BY <1>0, <1>b, <1>2, TailType DEF Starts
    <2>. QED  BY <1>2, <2>1, SkipWhitespacesType DEF NextElement
  <1>. QED  BY <1>1, <1>2

LEMMA ParameterType ==
  ASSUME TypeOK, Starts(s, Semicolon)
  PROVE  Parameter \in Seq(Token)
  BY SkipWhitespacesType, TailType DEF Parameter, TypeOK

-----------------------------------------------------------------------------
(* Specificity.                                                              *)

LEMMA SpecificityOf ==
  ASSUME NEW r, Proper(r)
  PROVE  Specificity(r) = IF r.type = "*" THEN 0 ELSE IF r.subtype = "*" THEN 1 ELSE 2
  <1>. DEFINE S == {part \in {"type", "subtype"} : r[part] # "*"}
  <1>0. r["type"] = r.type /\ r["subtype"] = r.subtype
    BY DEF Proper, MediaRange
  <1>1. CASE r.type = "*"
    <2>1. S = {}
      BY <1>0, <1>1 DEF Proper
    <2>. QED  BY <1>1, <2>1, FS_EmptySet DEF Specificity
  <1>2. CASE r.type # "*" /\ r.subtype = "*"
    <2>1. S = {"type"}
      BY <1>0, <1>2
    <2>. QED  BY <1>2, <2>1, FS_Singleton DEF Specificity
  <1>3. CASE r.type # "*" /\ r.subtype # "*"
    <2>1. S = {"type"} \cup {"subtype"}
      BY <1>0, <1>3
    <2>2. IsFiniteSet({"type"}) /\ Cardinality({"type"}) = 1
      BY FS_Singleton
    <2>3. Cardinality({"type"} \cup {"subtype"}) = 2
      BY <2>2, FS_AddElement
    <2>. QED  BY <1>3, <2>1, <2>3 DEF Specificity
  <1>. QED  BY <1>1, <1>2, <1>3

LEMMA MatchedRange ==
  ASSUME NEW r, Proper(r), NEW i \in 1 .. 2, CompareMediaTypes(r, <<Html, Json>>[i])
  PROVE  r.parameters = {}
  BY TypesList DEF CompareMediaTypes, Proper, MediaRange

(* What getPrecedence decides, of two ranges that take in one type.          *)
LEMMA PrecedenceIsSpecificity ==
  ASSUME NEW r, NEW q, Proper(r), Proper(q), NEW w,
         r.parameters = {}, q.parameters = {},
         w.type = q.type, w.subtype = q.subtype, w.parameters = q.parameters
  PROVE  GetPrecedence(r, w) <=> Specificity(q) < Specificity(r)
  <1>1. Cardinality(w.parameters) = 0 /\ Cardinality(r.parameters) = 0
    BY FS_EmptySet
  <1>2. w.type # "" /\ w.subtype # ""
    <2>1. q.type \in Words /\ q.subtype \in Words
      BY DEF Proper, MediaRange
    <2>. QED  BY <2>1, NoEmptyWord
  <1>3. GetPrecedence(r, w) <=> \/ q.type = "*" /\ r.type # "*"
                                \/ q.subtype = "*" /\ r.subtype # "*"
    <2>1. ~(Cardinality(w.parameters) < Cardinality(r.parameters))
      BY <1>1
    <2>. QED  BY <1>2, <2>1 DEF GetPrecedence
  <1>. QED  BY <1>3, SpecificityOf DEF Proper

-----------------------------------------------------------------------------
(* Types.                                                                    *)

Labels == {"mapping", "range", "parameters", "extensions", "weigh", "select",
           "chosen", "handler", "bodyParameters", "read", "done"}

Entry == [type : Words, subtype : Words, parameters : Parameters,
          weight : 0 .. 1000, order : Nat]

(* The variables of the loops.                                               *)
ChoiceOK ==
    /\ caller \in {"none", "mapper", "logout"}
    /\ list \in {<<>>, <<Html, Json>>}
    /\ range \in MediaRange \cup {Unset}
    /\ weights \in [DOMAIN list -> Entry \cup {Unset}]
    /\ n \in Nat
    /\ k \in 1 .. Len(list) + 1
    /\ best \in 0 .. Len(list)
    /\ ranges \in Seq(MediaRange)

AnswerOK ==
    /\ mapper \in {"none", "html", "json"}
    /\ media \in MediaType
    /\ reader \in {"none", "json", "form", "error"}
    /\ status \in {0, 200, 204}

LEMMA TypeOKParts ==
  TypeOK <=> /\ request \in Request /\ pc \in Labels /\ s \in Seq(Token)
             /\ ChoiceOK /\ AnswerOK
  BY DEF TypeOK, Labels, Entry, ChoiceOK, AnswerOK

LEMMA TypeOKNext ==
  ASSUME request' \in Request, pc' \in Labels, s' \in Seq(Token), ChoiceOK', AnswerOK'
  PROVE  TypeOK'
  BY DEF TypeOK, Labels, Entry, ChoiceOK, AnswerOK

LEMMA ChoiceUnchanged ==
  ASSUME ChoiceOK, UNCHANGED choice
  PROVE  ChoiceOK'
  BY DEF ChoiceOK, choice

LEMMA AnswerUnchanged ==
  ASSUME AnswerOK, UNCHANGED answer
  PROVE  AnswerOK'
  BY DEF AnswerOK, answer

LEMMA InitIInv == Init => IInv
  <1>. SUFFICES ASSUME Init PROVE IInv
    OBVIOUS
  <1>1. Len(<<>>) = 0 /\ DOMAIN <<>> = {} /\ <<>> \in Seq(Token) /\ <<>> \in Seq(MediaRange)
    OBVIOUS
  <1>2. ChoiceOK
    <2>1. <<>> \in [DOMAIN <<>> -> Entry \cup {Unset}]
      BY <1>1
    <2>. QED  BY <1>1, <2>1 DEF Init, ChoiceOK
  <1>3. AnswerOK
    <2>1. NoType \in MediaType
      BY DEF NoType, MediaType, Parameters
    <2>. QED  BY <2>1 DEF Init, AnswerOK
  <1>4. TypeOK
    BY <1>1, <1>2, <1>3, TypeOKParts, RequestsAssumption DEF Init, Labels
  <1>5. RangesOK /\ LoopOK /\ BestTypeChosen
    BY <1>1 DEF Init, RangesOK, LoopOK, BestTypeChosen, Reading
  <1>. QED  BY <1>4, <1>5 DEF IInv

LEMMA NegotiateTypes ==
  ASSUME TypeOK, NEW who \in {"mapper", "logout"},
         Negotiate(who, request.accept.tokens)
  PROVE  ChoiceOK' /\ s' \in Seq(Token) /\ pc' = "range"
  <1>1. list' = <<Html, Json>>
    BY TypesList DEF Negotiate
  <1>2. weights' \in [DOMAIN list' -> Entry \cup {Unset}]
    BY TypesList DEF Negotiate
  <1>3. Len(list') = 2
    BY <1>1, TypesList
  <1>. QED  BY <1>1, <1>2, <1>3, HeaderTypes DEF Negotiate, ChoiceOK

LEMMA WithParameters ==
  ASSUME NEW r, Proper(r), NEW P \in Parameters
  PROVE  Proper([r EXCEPT !.parameters = P])
  BY DEF Proper, MediaRange

LEMMA WithWeight ==
  ASSUME NEW r, Proper(r), NEW w \in 0 .. 1000
  PROVE  Proper([r EXCEPT !.weight = w])
  BY DEF Proper, MediaRange

LEMMA RangeTypes ==
  ASSUME TypeOK
  PROVE  /\ ConsumeType => range' \in MediaRange /\ Proper(range)' /\ s' \in Seq(Token)
         /\ (RangesOK /\ (ConsumeParameter \/ ConsumeWeight)) =>
                Proper(range)' /\ s' \in Seq(Token)
         /\ (ConsumeExtension \/ Weigh) => s' \in Seq(Token)
  <1>1. ASSUME ConsumeType
        PROVE  range' \in MediaRange /\ Proper(range)' /\ s' \in Seq(Token)
    <2>1. NextElement \in Seq(Token) /\ HasType(NextElement)
      BY <1>1, NextElementType DEF ConsumeType
    <2>. QED  BY <1>1, <2>1, HasTypeParts DEF ConsumeType, Proper, MediaRange, Parameters
  <1>2. ASSUME RangesOK, ConsumeParameter
        PROVE  Proper(range)' /\ s' \in Seq(Token)
    <2>1. Parameter \in Seq(Token) /\ HasParameter(Parameter) /\ Proper(range)
      BY <1>2, ParameterType DEF ConsumeParameter, RangesOK
    <2>2. Put(range.parameters, Parameter[1], Parameter[3]) \in Parameters
      BY <2>1, HasParameterParts, PutType DEF Proper, MediaRange
    <2>3. range' = [range EXCEPT !.parameters = Put(range.parameters, Parameter[1], Parameter[3])]
      BY <1>2 DEF ConsumeParameter
    <2>4. Proper(range)'
      BY <2>1, <2>2, <2>3, WithParameters DEF Proper
    <2>5. s' \in Seq(Token)
      BY <1>2, <2>1, HasParameterParts DEF ConsumeParameter
    <2>. QED  BY <2>4, <2>5
  <1>3. ASSUME RangesOK, ConsumeWeight
        PROVE  Proper(range)' /\ s' \in Seq(Token)
    <2>1. Parameter \in Seq(Token) /\ HasParameter(Parameter) /\ Proper(range)
      BY <1>3, ParameterType DEF ConsumeWeight, RangesOK
    <2>2. Weight[Parameter[3]] \in 0 .. 1000
      BY <1>3, WeightAssumption DEF ConsumeWeight
    <2>3. PICK w \in 0 .. 1000 : range' = [range EXCEPT !.weight = w]
      BY <1>3, <2>2 DEF ConsumeWeight
    <2>4. Proper(range)'
      <3>1. Proper([range EXCEPT !.weight = w])
        BY <2>1, WithWeight
      <3>. QED  BY <2>3, <3>1 DEF Proper
    <2>5. s' \in Seq(Token)
      BY <1>3, <2>1, HasParameterParts DEF ConsumeWeight
    <2>. QED  BY <2>4, <2>5
  <1>4. ASSUME ConsumeExtension
        PROVE  s' \in Seq(Token)
    BY <1>4, ParameterType, HasParameterParts DEF ConsumeExtension
  <1>5. ASSUME Weigh
        PROVE  s' \in Seq(Token)
    BY <1>5, SkipWhitespacesType DEF Weigh, TypeOK
  <1>. QED  BY <1>1, <1>2, <1>3, <1>4, <1>5

(* The steps that leave the loops' variables alone.                          *)
Outside ==
    \/ EndOfHeader \/ EndOfSelection \/ MatchByAcceptHeader \/ LogoutWithoutAccept
    \/ LogoutStatus \/ WithoutContentType \/ ParseType \/ ParseParameter \/ ParseFails
    \/ EndOfContentType \/ ReadBody \/ ConsumeExtension

Calls == GetMapper \/ Logout

Fails == ConsumeTypeFails \/ ConsumeParameterFails

LEMMA RequestKept ==
  ASSUME [Next]_vars
  PROVE  request' = request
  BY DEF Next, Step, Terminating, vars, choice, answer, GetMapper, ConsumeType,
         ConsumeTypeFails, ConsumeParameter, ConsumeWeight, ConsumeExtension,
         ConsumeParameterFails, Fail, Weigh, EndOfHeader, Select, EndOfSelection,
         MatchByAcceptHeader, LogoutWithoutAccept, Logout, LogoutStatus,
         WithoutContentType, ParseType, ParseParameter, ParseFails,
         EndOfContentType, ReadBody

LEMMA OutsideTypes ==
  ASSUME TypeOK, Outside, request' = request
  PROVE  TypeOK'
  <1>. USE DEF Return
  <1>t. /\ request \in Request /\ pc \in Labels /\ s \in Seq(Token)
        /\ ChoiceOK /\ AnswerOK
    BY TypeOKParts
  <1>c. UNCHANGED choice
    BY DEF Outside, EndOfHeader, EndOfSelection, MatchByAcceptHeader,
       LogoutWithoutAccept, LogoutStatus, WithoutContentType, ParseType,
       ParseParameter, ParseFails, EndOfContentType, ReadBody, ConsumeExtension
  <1>p. pc' \in Labels
    BY <1>t DEF Labels, Outside, EndOfHeader, EndOfSelection, MatchByAcceptHeader,
       LogoutWithoutAccept, LogoutStatus, WithoutContentType, ParseType,
       ParseParameter, ParseFails, EndOfContentType, ReadBody, ConsumeExtension
  <1>1. CASE ParseType
    <2>. DEFINE t == SkipWhitespaces(request.contentType.tokens)
    <2>1. t \in Seq(Token) /\ HasType(t)
      BY <1>1, HeaderTypes, SkipWhitespacesType DEF ParseType
    <2>2. t[1] \in Words /\ t[3] \in Words /\ SkipWhitespaces(From(t, 4)) \in Seq(Token)
      BY <2>1, HasTypeParts
    <2>3. [type |-> t[1], subtype |-> t[3], parameters |-> {}, made |-> TRUE] \in MediaType
      BY <2>2 DEF MediaType, Parameters
    <2>4. s' \in Seq(Token) /\ AnswerOK'
      BY <1>1, <1>t, <2>2, <2>3 DEF ParseType, AnswerOK
    <2>. QED  BY <1>t, <1>c, <1>p, <2>4, ChoiceUnchanged, TypeOKNext
  <1>2. CASE ParseParameter
    <2>1. Parameter \in Seq(Token) /\ HasParameter(Parameter)
      BY <1>2, ParameterType DEF ParseParameter
    <2>2. /\ Parameter[1] \in Words /\ Parameter[3] \in Words
          /\ SkipWhitespaces(From(Parameter, 4)) \in Seq(Token)
      BY <2>1, HasParameterParts
    <2>3. Put(media.parameters, Parameter[1], Parameter[3]) \in Parameters
      <3>1. media.parameters \in Parameters
        BY <1>t DEF AnswerOK, MediaType
      <3>. QED  BY <2>2, <3>1, PutType
    <2>4. media' \in MediaType
      BY <1>2, <1>t, <2>3 DEF ParseParameter, AnswerOK, MediaType
    <2>5. s' \in Seq(Token) /\ AnswerOK'
      BY <1>2, <1>t, <2>2, <2>4 DEF ParseParameter, AnswerOK
    <2>. QED  BY <1>t, <1>c, <1>p, <2>5, ChoiceUnchanged, TypeOKNext
  <1>3. CASE ConsumeExtension
    <2>1. s' \in Seq(Token) /\ UNCHANGED answer
      BY <1>3, RangeTypes DEF ConsumeExtension
    <2>. QED  BY <1>t, <1>c, <1>p, <2>1, ChoiceUnchanged, AnswerUnchanged, TypeOKNext
  <1>4. CASE ~ParseType /\ ~ParseParameter /\ ~ConsumeExtension
    <2>1. s' = s /\ AnswerOK'
      BY <1>4, <1>t DEF Outside, EndOfHeader, EndOfSelection, MatchByAcceptHeader,
       LogoutWithoutAccept, LogoutStatus, WithoutContentType,
       ParseFails, EndOfContentType, ReadBody, AnswerOK, answer
    <2>. QED  BY <1>t, <1>c, <1>p, <2>1, ChoiceUnchanged, TypeOKNext
  <1>. QED  BY <1>1, <1>2, <1>3, <1>4

LEMMA CallTypes ==
  ASSUME TypeOK, Calls, request' = request
  PROVE  TypeOK' /\ pc' = "range"
  <1>1. AnswerOK' /\ \E who \in {"mapper", "logout"} : Negotiate(who, request.accept.tokens)
    BY TypeOKParts, AnswerUnchanged DEF Calls, GetMapper, Logout, answer
  <1>2. request \in Request /\ "range" \in Labels
    BY TypeOKParts DEF Labels
  <1>3. ChoiceOK' /\ s' \in Seq(Token) /\ pc' = "range"
    BY <1>1, NegotiateTypes
  <1>. QED  BY <1>1, <1>2, <1>3, TypeOKNext

LEMMA LoopTypes ==
  ASSUME TypeOK, RangesOK, request' = request,
         Fails \/ ConsumeType \/ ConsumeParameter \/ ConsumeWeight \/ Weigh \/ Select
  PROVE  TypeOK'
  <1>t. /\ request \in Request /\ pc \in Labels /\ s \in Seq(Token)
        /\ ChoiceOK /\ AnswerOK
    BY TypeOKParts
  <1>a. UNCHANGED answer /\ AnswerOK'
    BY <1>t, AnswerUnchanged DEF Fails, ConsumeTypeFails, ConsumeParameterFails, Fail,
       ConsumeType, ConsumeParameter, ConsumeWeight, Weigh, Select
  <1>p. pc' \in Labels
    BY <1>t DEF Labels, Fails, ConsumeTypeFails, ConsumeParameterFails, Fail,
       ConsumeType, ConsumeParameter, ConsumeWeight, Weigh, Select
  <1>1. CASE Fails
    BY <1>1, <1>t, <1>a, <1>p, TypeOKNext
       DEF Fails, ConsumeTypeFails, ConsumeParameterFails, Fail, ChoiceOK
  <1>2. CASE ConsumeType \/ ConsumeParameter \/ ConsumeWeight
    <2>1. range' \in MediaRange /\ s' \in Seq(Token)
      BY <1>2, RangeTypes DEF Proper
    <2>2. ChoiceOK'
      BY <1>2, <1>t, <2>1 DEF ConsumeType, ConsumeParameter, ConsumeWeight, ChoiceOK
    <2>. QED  BY <1>t, <1>a, <1>p, <2>1, <2>2, TypeOKNext
  <1>3. CASE Weigh
    <2>1. range \in MediaRange /\ s' \in Seq(Token)
      BY <1>3, RangeTypes DEF Weigh, RangesOK, Proper
    <2>2. [type |-> range.type, subtype |-> range.subtype,
           parameters |-> range.parameters, weight |-> range.weight,
           order |-> n] \in Entry
      BY <1>t, <2>1 DEF MediaRange, Entry, ChoiceOK
    <2>3. weights' \in [DOMAIN list -> Entry \cup {Unset}]
      BY <1>3, <1>t, <2>2 DEF Weigh, ChoiceOK
    <2>4. ranges' \in Seq(MediaRange) /\ n' \in Nat
      BY <1>3, <1>t, <2>1 DEF Weigh, ChoiceOK
    <2>5. ChoiceOK'
      BY <1>3, <1>t, <2>3, <2>4 DEF Weigh, ChoiceOK
    <2>. QED  BY <1>t, <1>a, <1>p, <2>1, <2>5, TypeOKNext
  <1>4. CASE Select
    <2>1. Len(list) \in Nat
      BY <1>t, TypesList DEF ChoiceOK
    <2>2. k' \in 1 .. Len(list') + 1 /\ best' \in 0 .. Len(list')
      BY <1>4, <1>t, <2>1 DEF Select, ChoiceOK
    <2>3. ChoiceOK' /\ s' = s
      BY <1>4, <1>t, <2>2 DEF Select, ChoiceOK
    <2>. QED  BY <1>t, <1>a, <1>p, <2>3, TypeOKNext
  <1>. QED  BY <1>1, <1>2, <1>3, <1>4

LEMMA TypeStep ==
  ASSUME TypeOK, RangesOK, [Next]_vars
  PROVE  TypeOK'
  <1>1. request' = request
    BY RequestKept
  <1>2. CASE UNCHANGED vars
    BY <1>2 DEF vars, choice, answer, TypeOK
  <1>. QED  BY <1>1, <1>2, OutsideTypes, CallTypes, LoopTypes
            DEF Next, Step, Terminating, Outside, Calls, Fails

-----------------------------------------------------------------------------
(* The loop that reads the ranges.                                           *)

LEMMA CallResets ==
  ASSUME Calls
  PROVE  /\ list' = <<Html, Json>> /\ ranges' = <<>> /\ n' = 0
         /\ weights' = [i \in 1 .. 2 |-> Unset]
         /\ best' = 0 /\ k' = 1 /\ pc' = "range"
  BY TypesList DEF Calls, GetMapper, Logout, Negotiate

LEMMA RangesStep ==
  ASSUME TypeOK, RangesOK, [Next]_vars
  PROVE  RangesOK'
  <1>1. CASE Calls
    BY <1>1, CallResets DEF RangesOK
  <1>2. CASE Weigh
    <2>1. Proper(range) /\ ranges' = Append(ranges, range) /\ ranges \in Seq(MediaRange)
          /\ n' = n + 1 /\ pc' = "range"
      BY <1>2 DEF Weigh, RangesOK, TypeOK
    <2>. QED  BY <2>1 DEF RangesOK, Proper
  <1>3. CASE ConsumeType \/ ConsumeParameter \/ ConsumeWeight
    <2>1. Proper(range)' /\ ranges' = ranges /\ n' = n
      BY <1>3, RangeTypes DEF ConsumeType, ConsumeParameter, ConsumeWeight
    <2>. QED  BY <2>1 DEF RangesOK, Proper
  <1>4. CASE Outside \/ Fails \/ Select \/ UNCHANGED vars
    <2>1. /\ UNCHANGED <<ranges, n, range>>
          /\ pc' \in {"parameters", "extensions"} => pc \in {"parameters", "extensions"}
      BY <1>4 DEF Outside, EndOfHeader, EndOfSelection, MatchByAcceptHeader,
         LogoutWithoutAccept, LogoutStatus, WithoutContentType, ParseType,
         ParseParameter, ParseFails, EndOfContentType, ReadBody, ConsumeExtension,
         Fails, ConsumeTypeFails, ConsumeParameterFails, Fail, Select, Return,
         choice, vars
    <2>. QED  BY <2>1 DEF RangesOK, Proper
  <1>. QED  BY <1>1, <1>2, <1>3, <1>4
            DEF Next, Step, Terminating, Outside, Calls, Fails

(* One more range, of those that take in the type i.                         *)
LEMMA MatchingGrows ==
  ASSUME TypeOK, Weigh, NEW i
  PROVE  /\ Len(ranges') = Len(ranges) + 1 /\ ranges'[Len(ranges) + 1] = range
         /\ \A j \in DOMAIN ranges : j \in DOMAIN ranges' /\ ranges'[j] = ranges[j]
         /\ DOMAIN ranges' = DOMAIN ranges \cup {Len(ranges) + 1}
         /\ Len(ranges) + 1 \notin DOMAIN ranges
         /\ Matching(i)' = IF CompareMediaTypes(range, list[i])
                           THEN Matching(i) \cup {Len(ranges) + 1} ELSE Matching(i)
  <1>1. ranges \in Seq(MediaRange \cup {Unset}) /\ range \in MediaRange \cup {Unset}
        /\ ranges' = Append(ranges, range) /\ list' = list
    BY DEF Weigh, TypeOK
  <1>2. /\ Len(ranges') = Len(ranges) + 1 /\ ranges'[Len(ranges) + 1] = range
        /\ \A j \in DOMAIN ranges : j \in DOMAIN ranges' /\ ranges'[j] = ranges[j]
        /\ DOMAIN ranges' = DOMAIN ranges \cup {Len(ranges) + 1}
        /\ Len(ranges) + 1 \notin DOMAIN ranges
    BY <1>1
  <1>3. Matching(i)' = {j \in DOMAIN ranges' : CompareMediaTypes(ranges'[j], list[i])}
    BY <1>1 DEF Matching, CompareMediaTypes
  <1>. QED  BY <1>2, <1>3 DEF Matching

LEMMA KeptStep ==
  ASSUME TypeOK, RangesOK, Weigh, list = <<Html, Json>>, NEW i \in 1 .. 2, Kept(i)
  PROVE  Kept(i)'
  <1>. DEFINE matches == CompareMediaTypes(range, list[i])
  <1>s. ranges \in Seq(MediaRange) /\ Len(ranges) \in Nat /\ DOMAIN ranges = 1 .. Len(ranges)
    BY DEF TypeOK
  <1>n. PICK new \in Nat : new = Len(ranges) + 1
    BY <1>s
  <1>1. /\ list' = list /\ n = Len(ranges) /\ Proper(range)
        /\ \A j \in DOMAIN ranges : Proper(ranges[j])
    BY DEF Weigh, RangesOK
  <1>2. weights'[i] = IF matches /\ GetPrecedence(range, weights[i])
                      THEN [type |-> range.type, subtype |-> range.subtype,
                            parameters |-> range.parameters, weight |-> range.weight,
                            order |-> n]
                      ELSE weights[i]
    BY TypesList DEF Weigh
  <1>3. /\ ranges'[new] = range /\ new \in DOMAIN ranges'
        /\ \A j \in DOMAIN ranges : j \in DOMAIN ranges' /\ ranges'[j] = ranges[j]
        /\ Matching(i)' = IF matches THEN Matching(i) \cup {new} ELSE Matching(i)
        /\ \A j \in DOMAIN ranges : j < new /\ j \in Nat
    BY <1>n, <1>s, MatchingGrows
  <1>4. \A j \in Matching(i) : /\ j \in DOMAIN ranges
                               /\ ranges[j].parameters = {}
    BY <1>1, MatchedRange DEF Matching
  <1>5. CASE ~matches
    <2>1. Matching(i)' = Matching(i) /\ weights'[i] = weights[i]
      BY <1>2, <1>3, <1>5
    <2>2. CASE weights[i] = Unset /\ Matching(i) = {}
      BY <2>1, <2>2 DEF Kept, Unset
    <2>3. CASE \E j \in DOMAIN ranges : Decides(j, i) /\ weights[i] = EntryOf(j)
      <3>1. PICK j \in DOMAIN ranges : Decides(j, i) /\ weights[i] = EntryOf(j)
        BY <2>3
      <3>2. Decides(j, i)'
        <4>1. \A l \in Matching(i) : ranges'[l] = ranges[l]
          BY <1>3, <1>4
        <4>2. \A l \in Matching(i) : Specificity(ranges'[l]) = Specificity(ranges[l])
          BY <4>1
        <4>3. j \in Matching(i)' /\ \A l \in Matching(i)' :
                 \/ Specificity(ranges'[l]) < Specificity(ranges'[j])
                 \/ Specificity(ranges'[l]) = Specificity(ranges'[j]) /\ l >= j
          BY <2>1, <3>1, <4>2 DEF Decides
        <4>. QED  BY <4>3 DEF Decides, Specificity
      <3>3. EntryOf(j)' = EntryOf(j)
        BY <1>3 DEF EntryOf
      <3>. QED  BY <1>3, <2>1, <3>1, <3>2, <3>3 DEF Kept
    <2>. QED  BY <2>2, <2>3 DEF Kept
  <1>6. CASE matches
    <2>1. range.parameters = {}
      BY <1>1, <1>6, MatchedRange
    <2>2. CASE weights[i] = Unset /\ Matching(i) = {}
      <3>1. GetPrecedence(range, weights[i])
        <4>1. weights[i].type = ""
          BY <2>2, UnsetType
        <4>. QED  BY <4>1 DEF GetPrecedence
      <3>2. Decides(new, i)'
        <4>1. Matching(i)' = {new} /\ new >= new
          BY <1>3, <1>6, <2>2
        <4>. QED  BY <4>1 DEF Decides
      <3>3. weights'[i] = EntryOf(new)'
        BY <1>1, <1>2, <1>3, <1>6, <1>n, <1>s, <3>1 DEF EntryOf
      <3>. QED  BY <1>3, <3>2, <3>3 DEF Kept
    <2>3. ASSUME NEW j \in DOMAIN ranges, Decides(j, i), weights[i] = EntryOf(j)
          PROVE  Kept(i)'
      <3>0. j \in Matching(i) /\ ranges[j].parameters = {} /\ Proper(ranges[j])
        BY <1>1, <1>4, <2>3 DEF Decides
      <3>1. GetPrecedence(range, weights[i]) <=> Specificity(ranges[j]) < Specificity(range)
        BY <1>1, <2>1, <2>3, <3>0, PrecedenceIsSpecificity DEF EntryOf
      <3>2. /\ Specificity(range) \in Int
            /\ \A l \in Matching(i) : Specificity(ranges[l]) \in Int
        BY <1>1, <1>4, SpecificityOf
      <3>3. \A l \in Matching(i) :
               \/ Specificity(ranges[l]) < Specificity(ranges[j])
               \/ Specificity(ranges[l]) = Specificity(ranges[j]) /\ l >= j
        BY <2>3 DEF Decides
      <3>4. \A l \in Matching(i) : Specificity(ranges'[l]) = Specificity(ranges[l])
        BY <1>3, <1>4
      <3>5. CASE Specificity(ranges[j]) < Specificity(range)
        <4>1. Decides(new, i)'
          <5>1. \A l \in Matching(i) : Specificity(ranges'[l]) < Specificity(ranges'[new])
            BY <1>3, <3>0, <3>2, <3>3, <3>4, <3>5
          <5>2. new >= new
            BY <1>3
          <5>3. new \in Matching(i)' /\ \A l \in Matching(i)' : l \in Matching(i) \/ l = new
            BY <1>3, <1>6
          <5>. QED  BY <5>1, <5>2, <5>3 DEF Decides, Specificity
        <4>2. weights'[i] = EntryOf(new)'
          BY <1>1, <1>2, <1>3, <1>6, <1>n, <1>s, <3>1, <3>5 DEF EntryOf
        <4>. QED  BY <1>3, <4>1, <4>2 DEF Kept
      <3>6. CASE ~(Specificity(ranges[j]) < Specificity(range))
        <4>1. Decides(j, i)'
          <5>1. \A l \in Matching(i) :
                   \/ Specificity(ranges'[l]) < Specificity(ranges'[j])
                   \/ Specificity(ranges'[l]) = Specificity(ranges'[j]) /\ l >= j
            BY <3>0, <3>3, <3>4
          <5>2. \/ Specificity(ranges'[new]) < Specificity(ranges'[j])
                \/ Specificity(ranges'[new]) = Specificity(ranges'[j]) /\ new >= j
            BY <1>3, <3>0, <3>2, <3>4, <3>6
          <5>3. j \in Matching(i)' /\ \A l \in Matching(i)' : l \in Matching(i) \/ l = new
            BY <1>3, <1>6, <3>0
          <5>. QED  BY <5>1, <5>2, <5>3 DEF Decides, Specificity
        <4>2. EntryOf(j)' = EntryOf(j) /\ weights'[i] = weights[i]
          BY <1>2, <1>3, <3>1, <3>6 DEF EntryOf
        <4>. QED  BY <1>3, <2>3, <4>1, <4>2 DEF Kept
      <3>. QED  BY <3>5, <3>6
    <2>. QED  BY <2>2, <2>3 DEF Kept
  <1>. QED  BY <1>5, <1>6

-----------------------------------------------------------------------------
(* The loop that chooses.                                                    *)

LEMMA KeptWeights ==
  ASSUME TypeOK, list = <<Html, Json>>
  PROVE  \A i \in 1 .. 2 : weights[i].weight \in Nat /\ weights[i].order \in Nat
  <1>1. \A i \in 1 .. 2 : weights[i] \in Entry \cup {Unset}
    BY TypesList, TypeOKParts DEF ChoiceOK
  <1>2. \A e \in Entry : e.weight \in Nat /\ e.order \in Nat
    BY DEF Entry
  <1>. QED  BY <1>1, <1>2, UnsetFields

LEMMA KeptUnchanged ==
  ASSUME UNCHANGED <<ranges, list, weights>>, NEW i, Kept(i)
  PROVE  Kept(i)'
  BY DEF Kept, Matching, Decides, EntryOf

LEMMA SelectKeeps ==
  ASSUME TypeOK, list = <<Html, Json>>, Select, ChosenSoFar
  PROVE  ChosenSoFar'
  <1>1. /\ k \in 1 .. 2 /\ best \in 0 .. 2 /\ k' = k + 1
        /\ weights' = weights /\ best' \in {best, k}
    BY TypesList DEF TypeOK, Select
  <1>2. \A i \in 1 .. 2 : weights[i].weight \in Nat /\ weights[i].order \in Nat
    BY KeptWeights
  <1>3. \A i, j : Better(i, j)' <=> Better(i, j)
    BY <1>1 DEF Better
  <1>4. \A i \in 1 .. k' - 1 : i \in 1 .. k - 1 \/ i = k
    BY <1>1
  <1>5. CASE best = 0 /\ weights[k].weight > 0
    <2>1. best' = k
      BY <1>5 DEF Select
    <2>2. \A i \in 1 .. k' - 1 : ~Better(i, k)
      <3>1. \A i \in 1 .. k - 1 : weights[i].weight = 0 /\ i \in 1 .. 2
        BY <1>1, <1>5 DEF ChosenSoFar
      <3>2. \A i \in 1 .. k - 1 : ~Better(i, k)
        BY <1>1, <1>2, <1>5, <3>1 DEF Better
      <3>3. ~Better(k, k)
        BY <1>1, <1>2 DEF Better
      <3>. QED  BY <1>4, <3>2, <3>3
    <2>. QED  BY <1>1, <1>3, <1>5, <2>1, <2>2 DEF ChosenSoFar
  <1>6. CASE best = 0 /\ ~(weights[k].weight > 0)
    <2>1. best' = 0 /\ weights[k].weight = 0
      BY <1>1, <1>2, <1>6 DEF Select
    <2>. QED  BY <1>1, <1>4, <1>6, <2>1 DEF ChosenSoFar
  <1>7. CASE best # 0 /\ Better(k, best)
    <2>1. best' = k
      BY <1>7 DEF Select
    <2>2. weights[k].weight > 0
      BY <1>1, <1>2, <1>7 DEF ChosenSoFar, Better
    <2>3. \A i \in 1 .. k' - 1 : ~Better(i, k)
      BY <1>1, <1>2, <1>4, <1>7 DEF ChosenSoFar, Better
    <2>. QED  BY <1>1, <1>3, <2>1, <2>2, <2>3 DEF ChosenSoFar
  <1>8. CASE best # 0 /\ ~Better(k, best)
    <2>1. best' = best
      BY <1>8 DEF Select
    <2>. QED  BY <1>1, <1>3, <1>4, <1>8, <2>1 DEF ChosenSoFar
  <1>. QED  BY <1>5, <1>6, <1>7, <1>8

LEMMA LoopStep ==
  ASSUME TypeOK, RangesOK, LoopOK, [Next]_vars
  PROVE  LoopOK'
  <1>. USE DEF LoopOK, Reading
  <1>1. CASE Calls
    <2>1. \A i \in 1 .. 2 : Kept(i)'
      BY <1>1, CallResets DEF Kept, Matching
    <2>. QED  BY <1>1, <2>1, CallResets
  <1>2. CASE Weigh
    <2>1. \A i \in 1 .. 2 : Kept(i)'
      BY <1>2, KeptStep DEF Weigh
    <2>. QED  BY <1>2, <2>1 DEF Weigh
  <1>3. CASE ConsumeType \/ ConsumeParameter \/ ConsumeWeight \/ ConsumeExtension
    <2>1. UNCHANGED <<ranges, list, weights, best, k>> /\ pc \in Reading /\ pc' \in Reading
      BY <1>3 DEF ConsumeType, ConsumeParameter, ConsumeWeight, ConsumeExtension, choice
    <2>. QED  BY <2>1, KeptUnchanged
  <1>4. CASE EndOfHeader
    <2>1. UNCHANGED <<ranges, list, weights, best, k>> /\ pc \in Reading /\ pc' = "select"
      BY <1>4 DEF EndOfHeader, choice
    <2>2. ChosenSoFar'
      BY <2>1 DEF ChosenSoFar
    <2>. QED  BY <2>1, <2>2, KeptUnchanged
  <1>5. CASE Select
    <2>1. UNCHANGED <<ranges, list, weights>> /\ pc = "select" /\ pc' = "select"
      BY <1>5 DEF Select
    <2>. QED  BY <1>5, <2>1, KeptUnchanged, SelectKeeps
  <1>6. CASE EndOfSelection \/ Fails
    <2>1. list' = list /\ pc \in Reading \cup {"select"} /\ pc' = "chosen"
      BY <1>6 DEF EndOfSelection, Fails, ConsumeTypeFails, ConsumeParameterFails,
         Fail, choice
    <2>. QED  BY <2>1
  <1>7. CASE \/ MatchByAcceptHeader \/ LogoutWithoutAccept \/ LogoutStatus
             \/ WithoutContentType \/ ParseType \/ ParseParameter \/ ParseFails
             \/ EndOfContentType \/ ReadBody
    BY <1>7 DEF MatchByAcceptHeader, LogoutWithoutAccept, LogoutStatus,
       WithoutContentType, ParseType, ParseParameter, ParseFails, EndOfContentType,
       ReadBody, Return
  <1>8. CASE UNCHANGED vars
    <2>1. UNCHANGED <<ranges, list, weights, best, k, pc>>
      BY <1>8 DEF vars, choice
    <2>. QED  BY <2>1, KeptUnchanged DEF ChosenSoFar, Better
  <1>. QED  BY <1>1, <1>2, <1>3, <1>4, <1>5, <1>6, <1>7, <1>8
            DEF Next, Step, Terminating, Calls, Fails

LEMMA OneRangeDecides ==
  ASSUME RangesOK, ranges \in Seq(MediaRange),
         NEW i, NEW j, NEW l, Decides(j, i), Decides(l, i)
  PROVE  j = l
  <1>1. j \in DOMAIN ranges /\ l \in DOMAIN ranges /\ j \in Int /\ l \in Int
        /\ j \in Matching(i) /\ l \in Matching(i)
    BY DEF Decides, Matching
  <1>2. Specificity(ranges[j]) \in Int /\ Specificity(ranges[l]) \in Int
    BY <1>1, SpecificityOf DEF RangesOK
  <1>. QED  BY <1>1, <1>2 DEF Decides

(* What was kept is all that matters about the ranges.                       *)
LEMMA KeptDecides ==
  ASSUME RangesOK, ranges \in Seq(MediaRange), NEW i, Kept(i),
         NEW l \in DOMAIN ranges, Decides(l, i)
  PROVE  weights[i] = EntryOf(l)
  <1>1. Matching(i) # {}
    BY DEF Decides
  <1>. QED  BY <1>1, OneRangeDecides DEF Kept

LEMMA SelectionIsBest ==
  ASSUME TypeOK, RangesOK, LoopOK, EndOfSelection
  PROVE  BestTypeChosen'
  <1>1. /\ list = <<Html, Json>> /\ \A i \in 1 .. 2 : Kept(i)
        /\ ChosenSoFar /\ k = 3 /\ best \in 0 .. 2
        /\ ranges \in Seq(MediaRange) /\ DOMAIN list = 1 .. 2
    <2>1. list = <<Html, Json>> /\ (\A i \in 1 .. 2 : Kept(i)) /\ ChosenSoFar
      BY DEF LoopOK, EndOfSelection
    <2>2. k \in 1 .. Len(list) + 1 /\ best \in 0 .. Len(list) /\ ranges \in Seq(MediaRange)
      BY TypeOKParts DEF ChoiceOK
    <2>3. k > Len(list) /\ Len(list) = 2
      BY <2>1, TypesList DEF EndOfSelection
    <2>4. k = 3 /\ best \in 0 .. 2
      BY <2>2, <2>3
    <2>. QED  BY <2>1, <2>2, <2>4, TypesList
  <1>2. UNCHANGED <<best, list, ranges>>
    BY DEF EndOfSelection, choice
  <1>3. \A i \in 1 .. 2 : weights[i].weight \in Nat /\ weights[i].order \in Nat
    BY <1>1, KeptWeights
  <1>4. \A i \in 1 .. 2 : \A l \in DOMAIN ranges : Acceptable(l, i) =>
           /\ weights[i].weight = ranges[l].weight /\ weights[i].weight > 0
           /\ weights[i].order = l - 1 /\ l \in Int
    <2>1. ASSUME NEW i \in 1 .. 2, NEW l \in DOMAIN ranges, Acceptable(l, i)
          PROVE  /\ weights[i].weight = ranges[l].weight /\ weights[i].weight > 0
                 /\ weights[i].order = l - 1 /\ l \in Int
      <3>1. weights[i] = EntryOf(l) /\ ranges[l].weight > 0
        BY <1>1, <2>1, KeptDecides DEF Acceptable
      <3>2. EntryOf(l).weight = ranges[l].weight /\ EntryOf(l).order = l - 1
        BY DEF EntryOf
      <3>3. l \in Int
        BY <1>1
      <3>. QED  BY <3>1, <3>2, <3>3
    <2>. QED  BY <2>1
  <1>5. CASE best = 0
    <2>1. \A i \in DOMAIN list : \A j \in DOMAIN ranges : ~Acceptable(j, i)
      BY <1>1, <1>3, <1>4, <1>5 DEF ChosenSoFar
    <2>. QED  BY <1>2, <1>5, <2>1 DEF BestTypeChosen, Acceptable, Decides, Matching
  <1>6. CASE best # 0
    <2>1. best \in 1 .. 2 /\ weights[best].weight > 0 /\ \A i \in 1 .. 2 : ~Better(i, best)
      BY <1>1, <1>6 DEF ChosenSoFar
    <2>2. PICK j \in DOMAIN ranges : Decides(j, best) /\ weights[best] = EntryOf(j)
      <3>1. weights[best] # Unset /\ Kept(best)
        BY <1>1, <2>1, UnsetFields
      <3>. QED  BY <3>1 DEF Kept
    <2>3. Acceptable(j, best)
      BY <2>1, <2>2 DEF Acceptable, EntryOf
    <2>4. \A i \in DOMAIN list : \A l \in DOMAIN ranges : Acceptable(l, i) =>
             \/ ranges[l].weight < ranges[j].weight
             \/ ranges[l].weight = ranges[j].weight /\ l >= j
      <3>1. ASSUME NEW i \in 1 .. 2, NEW l \in DOMAIN ranges, Acceptable(l, i)
            PROVE  \/ ranges[l].weight < ranges[j].weight
                   \/ ranges[l].weight = ranges[j].weight /\ l >= j
        <4>1. /\ weights[i].weight = ranges[l].weight /\ weights[i].order = l - 1
              /\ l \in Int
          BY <1>4, <3>1
        <4>2. /\ weights[best].weight = ranges[j].weight /\ weights[best].order = j - 1
              /\ j \in Int
          BY <1>4, <2>1, <2>3
        <4>3. ~Better(i, best)
          BY <2>1
        <4>. QED  BY <1>3, <2>1, <4>1, <4>2, <4>3 DEF Better
      <3>. QED  BY <1>1, <3>1
    <2>. QED  BY <1>2, <2>2, <2>3, <2>4 DEF BestTypeChosen, Acceptable, Decides, Matching
  <1>. QED  BY <1>5, <1>6

LEMMA BestStep ==
  ASSUME TypeOK, RangesOK, LoopOK, BestTypeChosen, [Next]_vars
  PROVE  BestTypeChosen'
  <1>1. CASE EndOfSelection
    BY <1>1, SelectionIsBest
  <1>2. CASE Fails
    <2>1. s # <<>> /\ s' = s
      BY <1>2 DEF Fails, ConsumeTypeFails, ConsumeParameterFails, Fail, Starts
    <2>. QED  BY <2>1 DEF BestTypeChosen
  <1>3. CASE UNCHANGED vars
    BY <1>3 DEF vars, choice, BestTypeChosen, Acceptable, Decides, Matching
  <1>4. CASE /\ Step /\ ~EndOfSelection /\ ~Fails
    <2>1. pc' # "chosen"
      BY <1>4 DEF Step, Fails, GetMapper, ConsumeType, ConsumeParameter, ConsumeWeight,
         ConsumeExtension, Weigh, EndOfHeader, Select, MatchByAcceptHeader,
         LogoutWithoutAccept, Logout, LogoutStatus, WithoutContentType, ParseType,
         ParseParameter, ParseFails, EndOfContentType, ReadBody, Negotiate, Return
    <2>. QED  BY <2>1 DEF BestTypeChosen
  <1>. QED  BY <1>1, <1>2, <1>3, <1>4 DEF Next, Terminating

-----------------------------------------------------------------------------
(* The theorems.                                                             *)

(* After each range, every available type remembers the first of the most    *)
(* specific ranges so far, and the loop of the choice keeps the best so far. *)
THEOREM Invariance == Spec => []IInv
  <1>1. IInv /\ [Next]_vars => IInv'
    BY TypeStep, RangesStep, LoopStep, BestStep DEF IInv
  <1>. QED  BY <1>1, InitIInv, PTL DEF Spec

(* Whatever the headers are, no parser reads past the end of one, and every  *)
(* variable keeps its type.                                                  *)
THEOREM TypeCorrect == Spec => []TypeOK
  <1>1. IInv => TypeOK
    BY DEF IInv
  <1>. QED  BY <1>1, Invariance, PTL

(* One pass over the ranges, with one entry for each available type, chooses *)
(* what RFC 7231 asks for, for headers of any length.                        *)
THEOREM NegotiationIsFair == Spec => []BestTypeChosen
  <1>1. IInv => BestTypeChosen
    BY DEF IInv
  <1>. QED  BY <1>1, Invariance, PTL
=============================================================================
