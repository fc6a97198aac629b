----------------------------- MODULE Negotiation -----------------------------
(***************************************************************************)
(* In which format a request is read and answered.  A handler with a body   *)
(* chooses the reader by the Content-Type header; toJsonOrHtmlByAccept       *)
(* chooses the mapper of the answer by the Accept header, before the handler *)
(* runs, or after it where the answer sets the session cookie; logout looks  *)
(* at the Accept header too, to choose a status.                             *)
(*                                                                          *)
(* A header is a sequence of tokens: words, separators, runs of whitespace. *)
(* Every turn of a parser's loop is an action, with the rest of the header  *)
(* in s, as in the code.  Quoted values are left out: no header has any.    *)
(***************************************************************************)
EXTENDS Integers, Sequences, FiniteSets

CONSTANTS
    Words,          \* tokens of RFC 7230, in lower case
    Weight,         \* what getWeight makes of the words that are weights
    Requests,       \* the requests, with what their headers mean
    Malformed       \* the meaning of a header that breaks the grammar

(* What stands between the ranges, and before each parameter.                *)
Comma == ","
Semicolon == ";"

(* "?" is any character that no token may hold.                              *)
Token == Words \cup {"/", Semicolon, "=", Comma, " ", "?"}

(* A map of parameters is a set of pairs.                                    *)
Parameters == SUBSET (Words \X Words)

(* Go tells a map that was never made from an empty one.                     *)
MediaType == [type : Words \cup {""}, subtype : Words \cup {""},
              parameters : Parameters, made : BOOLEAN]

(* An element of an Accept header.                                           *)
MediaRange == [type : Words, subtype : Words, parameters : Parameters,
          weight : 0 .. 1000]

Header(meaning) ==
    [present : BOOLEAN, tokens : Seq(Token), meaning : meaning \cup {Malformed}]

(* addItem and loginWithPassword (or registerWithPassword) read a body,      *)
(* logout chooses a status.                                                  *)
Request == [route : {"addItem", "login", "logout"}, accept : Header(Seq(MediaRange)),
            contentType : Header(MediaType)]

ASSUME WordsAssumption ==
    /\ {"*", "q", "text", "html", "application", "json"} \subseteq Words
    /\ {"", "/", Semicolon, "=", Comma, " ", "?"} \cap Words = {}
ASSUME WeightAssumption ==
    DOMAIN Weight \subseteq Words /\ \A w \in DOMAIN Weight : Weight[w] \in 0 .. 1000
ASSUME RequestsAssumption == Requests \subseteq Request

(* Header.Get gives "" for a header that is not there.                       *)
ASSUME NoHeaderAssumption ==
    \A r \in Requests : ~r.accept.present => r.accept.tokens = <<>>

VARIABLES
    request,        \* its route and headers
    pc,             \* the loop that runs
    s,              \* what is left of the header
    caller,         \* who has called GetAcceptableMediaTypeFromHeader
    list,           \* availableMediaTypes
    range,          \* acceptableMediaType and its weight
    weights,        \* the best range for every available type so far
    n,              \* mediaTypeCount
    k,              \* loop counter of the choice
    best,           \* resultIndex
    ranges,         \* history: the ranges consumed
    mapper,         \* the mapper of the answer
    media,          \* the media type of the body
    reader,         \* how the body was read
    status          \* the status of a logout

choice == <<caller, list, range, weights, n, k, best, ranges>>
answer == <<mapper, media, reader, status>>
vars == <<request, pc, s, choice, answer>>

Html == [type |-> "text", subtype |-> "html", parameters |-> {}, made |-> FALSE]
Json == [type |-> "application", subtype |-> "json", parameters |-> {},
         made |-> FALSE]
NoType == [type |-> "", subtype |-> "", parameters |-> {}, made |-> FALSE]

(* Mutant: JSON comes first.                                                 *)
AllowedMediaTypesMutant == <<Json, Html>>

AllowedMediaTypes == <<Html, Json>>

Unset == [type |-> "", subtype |-> "", parameters |-> {}, weight |-> 0,
          order |-> 0]

TypeOK ==
    /\ request \in Request
    /\ pc \in {"mapping", "range", "parameters", "extensions", "weigh", "select",
               "chosen", "handler", "bodyParameters", "read", "done"}
    /\ s \in Seq(Token)
    /\ caller \in {"none", "mapper", "logout"}
    /\ list \in {<<>>, <<Html, Json>>}
    /\ range \in MediaRange \cup {Unset}
    /\ weights \in [DOMAIN list ->
         [type : Words, subtype : Words, parameters : Parameters,
          weight : 0 .. 1000, order : Nat] \cup {Unset}]
    /\ n \in Nat
    /\ k \in 1 .. Len(list) + 1
    /\ best \in 0 .. Len(list)
    /\ ranges \in Seq(MediaRange)
    /\ mapper \in {"none", "html", "json"}
    /\ media \in MediaType
    /\ reader \in {"none", "json", "form", "error"}
    /\ status \in {0, 200, 204}

Init ==
    /\ request \in Requests
    /\ pc = IF request.route = "addItem" THEN "mapping" ELSE "handler"
    /\ s = <<>>
    /\ caller = "none"
    /\ list = <<>>
    /\ range = Unset
    /\ weights = <<>>
    /\ n = 0
    /\ k = 1
    /\ best = 0
    /\ ranges = <<>>
    /\ mapper = "none"
    /\ media = NoType
    /\ reader = "none"
    /\ status = 0

-----------------------------------------------------------------------------
(* The parts of a header.                                                    *)

From(t, i) == SubSeq(t, i, Len(t))

Starts(t, c) == t # <<>> /\ Head(t) = c

SkipWhitespaces(t) == IF Starts(t, " ") THEN Tail(t) ELSE t

(* Mutant: a wildcard may come with any subtype.                             *)
HasTypeMutant(t) ==
    Len(t) >= 3 /\ t[1] \in Words /\ t[2] = "/" /\ t[3] \in Words

(* consumeType succeeds on t, and leaves From(t, 4).                         *)
HasType(t) ==
    /\ Len(t) >= 3
    /\ t[1] \in Words /\ t[2] = "/" /\ t[3] \in Words
    /\ t[1] = "*" => t[3] = "*"

(* consumeParameter succeeds on t, and leaves From(t, 4).                    *)
HasParameter(t) ==
    Len(t) >= 3 /\ t[1] \in Words /\ t[2] = "=" /\ t[3] \in Words

(* An assignment to a map: a later value replaces an earlier one.            *)
Put(parameters, key, value) ==
    {p \in parameters : p[1] # key} \cup {<<key, value>>}

(* compareMediaTypes: does the range r take in the available type m?         *)
CompareMediaTypes(r, m) ==
    /\ r.type \in {"*", m.type}
    /\ r.subtype \in {"*", m.subtype}
    /\ r.parameters \subseteq m.parameters

(* Mutant: the first range that matches is kept.                             *)
GetPrecedenceMutant(r, w) == w.type = "" \/ w.subtype = ""

(* getPrecedence: is the range r more specific than the one kept in w?       *)
GetPrecedence(r, w) ==
    \/ w.type = "" \/ w.subtype = ""
    \/ w.type = "*" /\ r.type # "*"
    \/ w.subtype = "*" /\ r.subtype # "*"
    \/ Cardinality(w.parameters) < Cardinality(r.parameters)

Equal(m1, m2) == m1 = m2

Matches(m1, m2) ==
    /\ m1.type = m2.type \/ "*" \in {m1.type, m2.type}
    /\ m1.subtype = m2.subtype \/ "*" \in {m1.subtype, m2.subtype}

-----------------------------------------------------------------------------
(* GetAcceptableMediaTypeFromHeader.                                         *)

(* The call, with the value of the header.                                   *)
Negotiate(who, value) ==
    /\ caller' = who
    /\ list' = AllowedMediaTypes
    /\ s' = value
    /\ range' = Unset
    /\ weights' = [i \in DOMAIN AllowedMediaTypes |-> Unset]
    /\ n' = 0
    /\ k' = 1
    /\ best' = 0
    /\ ranges' = <<>>
    /\ pc' = "range"

(* An error: there is no acceptable type.                                    *)
Fail ==
    /\ best' = 0
    /\ pc' = "chosen"
    /\ UNCHANGED <<request, answer, s, caller, list, range, weights, n, k, ranges>>

(* What follows the comma in front of every element but the first.           *)
NextElement == SkipWhitespaces(IF n = 0 THEN s ELSE Tail(s))

ConsumeType ==
    /\ pc = "range"
    /\ s # <<>>
    /\ n > 0 => Starts(s, Comma)
    /\ HasType(NextElement)
    /\ range' = [type |-> NextElement[1], subtype |-> NextElement[3],
                 parameters |-> {}, weight |-> 1000]
    /\ s' = SkipWhitespaces(From(NextElement, 4))
    /\ pc' = "parameters"
    /\ UNCHANGED <<request, answer, caller, list, weights, n, k, best, ranges>>

(* No comma, or no media type, where there has to be one.                    *)
ConsumeTypeFails ==
    /\ pc = "range"
    /\ s # <<>>
    /\ (n > 0 => Starts(s, Comma)) => ~HasType(NextElement)
    /\ Fail

(* What follows a semicolon.                                                 *)
Parameter == SkipWhitespaces(Tail(s))

ConsumeParameter ==
    /\ pc = "parameters"
    /\ Starts(s, Semicolon)
    /\ HasParameter(Parameter)
    /\ Parameter[1] # "q"
    /\ range' = [range EXCEPT
                   !.parameters = Put(@, Parameter[1], Parameter[3])]
    /\ s' = SkipWhitespaces(From(Parameter, 4))
    /\ UNCHANGED <<request, answer, pc, caller, list, weights, n, k, best, ranges>>

(* "q" ends the parameters of the media type.                                *)
ConsumeWeight ==
    /\ pc = "parameters"
    /\ Starts(s, Semicolon)
    /\ HasParameter(Parameter)
    /\ Parameter[1] = "q"
    /\ Parameter[3] \in DOMAIN Weight
    /\ range' = [range EXCEPT !.weight = Weight[Parameter[3]]]
    /\ s' = SkipWhitespaces(From(Parameter, 4))
    /\ pc' = "extensions"
    /\ UNCHANGED <<request, answer, caller, list, weights, n, k, best, ranges>>

(* Mutant: what remains after the parameter is not assigned to s.            *)
ConsumeExtensionMutant ==
    /\ pc = "extensions"
    /\ Starts(s, Semicolon)
    /\ HasParameter(Parameter)
    /\ UNCHANGED <<request, answer, pc, s, choice>>

(* Both callers ignore the extension parameters.                             *)
ConsumeExtension ==
    /\ pc = "extensions"
    /\ Starts(s, Semicolon)
    /\ HasParameter(Parameter)
    /\ s' = SkipWhitespaces(From(Parameter, 4))
    /\ UNCHANGED <<request, answer, pc, choice>>

ConsumeParameterFails ==
    /\ pc \in {"parameters", "extensions"}
    /\ Starts(s, Semicolon)
    /\ HasParameter(Parameter) => /\ pc = "parameters"
                                  /\ Parameter[1] = "q"
                                  /\ Parameter[3] \notin DOMAIN Weight
    /\ Fail

(* The end of the element: every available type remembers the most specific  *)
(* range that takes it in.                                                   *)
Weigh ==
    /\ pc \in {"parameters", "extensions"}
    /\ ~Starts(s, Semicolon)
    /\ weights' = [i \in DOMAIN list |->
          IF CompareMediaTypes(range, list[i]) /\ GetPrecedence(range, weights[i])
          THEN [type |-> range.type, subtype |-> range.subtype,
                parameters |-> range.parameters, weight |-> range.weight,
                order |-> n]
          ELSE weights[i]]
    /\ n' = n + 1
    /\ ranges' = Append(ranges, range)
    /\ s' = SkipWhitespaces(s)
    /\ pc' = "range"
    /\ UNCHANGED <<request, answer, caller, list, range, k, best>>

EndOfHeader ==
    /\ pc = "range"
    /\ s = <<>>
    /\ pc' = "select"
    /\ UNCHANGED <<request, answer, s, choice>>

Better(i, j) ==
    \/ weights[i].weight > weights[j].weight
    \/ weights[i].weight = weights[j].weight /\ weights[i].order < weights[j].order

(* One turn of the loop that chooses resultIndex.                            *)
Select ==
    /\ pc = "select"
    /\ k <= Len(list)
    /\ best' = IF \/ best # 0 /\ Better(k, best)
                  \/ best = 0 /\ weights[k].weight > 0
               THEN k ELSE best
    /\ k' = k + 1
    /\ UNCHANGED <<request, answer, pc, s, caller, list, range, weights, n, ranges>>

EndOfSelection ==
    /\ pc = "select"
    /\ k > Len(list)
    /\ pc' = "chosen"
    /\ UNCHANGED <<request, answer, s, choice>>

-----------------------------------------------------------------------------
(* The callers.                                                              *)

(* toJsonOrHtmlByAccept, called by MappingResultOf before the handler, or by *)
(* the mapper of writeSessionCookie after it.                                *)
GetMapper ==
    /\ pc = "mapping"
    /\ Negotiate("mapper", request.accept.tokens)
    /\ UNCHANGED <<request, answer>>

(* MatchByAcceptHeader: without an acceptable type it is JSON.               *)
MatchByAcceptHeader ==
    /\ pc = "chosen"
    /\ caller = "mapper"
    /\ mapper' = IF best # 0 /\ Equal(Html, list[best]) THEN "html" ELSE "json"
    /\ pc' = IF request.route = "addItem" THEN "handler" ELSE "done"
    /\ UNCHANGED <<request, s, choice, media, reader, status>>

(* The handler returns.                                                      *)
Return == pc' = IF mapper = "none" THEN "mapping" ELSE "done"

(* GetAcceptableMediaType, called by logout, takes the first available type  *)
(* when there is no header.                                                  *)
LogoutWithoutAccept ==
    /\ pc = "handler"
    /\ request.route = "logout"
    /\ ~request.accept.present
    /\ status' = IF Matches(AllowedMediaTypes[1], Html) THEN 200 ELSE 204
    /\ Return
    /\ UNCHANGED <<request, s, choice, mapper, media, reader>>

Logout ==
    /\ pc = "handler"
    /\ request.route = "logout"
    /\ request.accept.present
    /\ Negotiate("logout", request.accept.tokens)
    /\ UNCHANGED <<request, answer>>

(* Mutant: an error counts as a request for HTML.                            *)
LogoutStatusMutant ==
    /\ pc = "chosen"
    /\ caller = "logout"
    /\ status' = IF best # 0 => Matches(list[best], Html) THEN 200 ELSE 204
    /\ Return
    /\ UNCHANGED <<request, s, choice, mapper, media, reader>>

LogoutStatus ==
    /\ pc = "chosen"
    /\ caller = "logout"
    /\ status' = IF best # 0 /\ Matches(list[best], Html) THEN 200 ELSE 204
    /\ Return
    /\ UNCHANGED <<request, s, choice, mapper, media, reader>>

-----------------------------------------------------------------------------
(* ReadValidBody, with GetMediaType and ParseMediaType.                      *)

WithoutContentType ==
    /\ pc = "handler"
    /\ request.route # "logout"
    /\ ~request.contentType.present
    /\ pc' = "read"
    /\ UNCHANGED <<request, s, choice, answer>>

ParseType ==
    /\ pc = "handler"
    /\ request.route # "logout"
    /\ request.contentType.present
    /\ LET t == SkipWhitespaces(request.contentType.tokens)
       IN  /\ HasType(t)
           /\ media' = [type |-> t[1], subtype |-> t[3], parameters |-> {},
                        made |-> TRUE]
           /\ s' = SkipWhitespaces(From(t, 4))
    /\ pc' = "bodyParameters"
    /\ UNCHANGED <<request, choice, mapper, reader, status>>

ParseParameter ==
    /\ pc = "bodyParameters"
    /\ Starts(s, Semicolon)
    /\ HasParameter(Parameter)
    /\ media' = [media EXCEPT
                   !.parameters = Put(@, Parameter[1], Parameter[3])]
    /\ s' = SkipWhitespaces(From(Parameter, 4))
    /\ UNCHANGED <<request, pc, choice, mapper, reader, status>>

(* No media type, a bad parameter, or something left after the last one: the *)
(* handler answers 400.                                                      *)
ParseFails ==
    /\ \/ /\ pc = "handler" /\ request.route # "logout" /\ request.contentType.present
          /\ ~HasType(SkipWhitespaces(request.contentType.tokens))
       \/ pc = "bodyParameters" /\ Starts(s, Semicolon) /\ ~HasParameter(Parameter)
       \/ pc = "bodyParameters" /\ s # <<>> /\ ~Starts(s, Semicolon)
    /\ reader' = "error"
    /\ Return
    /\ UNCHANGED <<request, s, choice, mapper, media, status>>

(* Mutant: what is left after the parameters is ignored.                     *)
EndOfContentTypeMutant ==
    /\ pc = "bodyParameters"
    /\ ~Starts(s, Semicolon)
    /\ pc' = "read"
    /\ UNCHANGED <<request, s, choice, answer>>

EndOfContentType ==
    /\ pc = "bodyParameters"
    /\ s = <<>>
    /\ pc' = "read"
    /\ UNCHANGED <<request, s, choice, answer>>

ReadBody ==
    /\ pc = "read"
    /\ reader' = IF Equal(Json, media) THEN "json" ELSE "form"
    /\ Return
    /\ UNCHANGED <<request, s, choice, mapper, media, status>>

-----------------------------------------------------------------------------

Terminating ==
    /\ pc = "done"
    /\ UNCHANGED vars

Step ==
    \/ GetMapper \/ ConsumeType \/ ConsumeTypeFails \/ ConsumeParameter
    \/ ConsumeWeight \/ ConsumeExtension \/ ConsumeParameterFails \/ Weigh
    \/ EndOfHeader \/ Select \/ EndOfSelection \/ MatchByAcceptHeader
    \/ LogoutWithoutAccept \/ Logout \/ LogoutStatus
    \/ WithoutContentType \/ ParseType \/ ParseParameter \/ ParseFails
    \/ EndOfContentType \/ ReadBody

Next == Step \/ Terminating

(* One goroutine, which Go runs to its end.                                  *)
Spec == Init /\ [][Next]_vars /\ WF_vars(Step)

-----------------------------------------------------------------------------
(* Properties.                                                               *)

(* RFC 7231, 5.3.2, which the comments in the code refer to: of the ranges   *)
(* that take in a type the most specific one decides about it.  Html and     *)
(* Json have no parameters, so the wildcards alone make the difference.      *)
Specificity(r) == Cardinality({part \in {"type", "subtype"} : r[part] # "*"})

Matching(i) == {j \in DOMAIN ranges : CompareMediaTypes(ranges[j], list[i])}

Decides(j, i) ==
    /\ j \in Matching(i)
    /\ \A l \in Matching(i) :
          \/ Specificity(ranges[l]) < Specificity(ranges[j])
          \/ Specificity(ranges[l]) = Specificity(ranges[j]) /\ l >= j

(* The available type i suits the client, for what range j says of it.       *)
Acceptable(j, i) == Decides(j, i) /\ ranges[j].weight > 0

(* When the ranges have been read, the client gets a type it accepts if      *)
(* there is one, and none that it likes less than another; of types it likes *)
(* equally well, the one it has named first.                                 *)
BestTypeChosen ==
    pc = "chosen" /\ s = <<>> =>
        \/ best = 0 /\ \A i \in DOMAIN list : \A j \in DOMAIN ranges : ~Acceptable(j, i)
        \/ \E j \in DOMAIN ranges :
              /\ Acceptable(j, best)
              /\ \A i \in DOMAIN list : \A l \in DOMAIN ranges :
                    Acceptable(l, i) =>
                        \/ ranges[l].weight < ranges[j].weight
                        \/ ranges[l].weight = ranges[j].weight /\ l >= j

(* The parser reads the ranges that were written, and fails on a header that *)
(* breaks the grammar, and on no other.                                      *)
ReadsWhatWasWritten ==
    pc = "chosen" =>
        IF request.accept.meaning = Malformed THEN best = 0
        ELSE s = <<>> /\ ranges = request.accept.meaning

(* logout has the Accept header looked at twice, by two functions.  With a   *)
(* header, well formed or not, they agree: 200 goes with the page, 204 with  *)
(* the empty answer.  Without one they do not: the status is the one of the  *)
(* page and the answer the empty one, as GetAcceptableMediaType takes the    *)
(* first type that is available and MatchByAcceptHeader its default, JSON.   *)
(* (openapi.yaml, 343-348, promises 204 and no data whatever the client      *)
(* accepts; the 200s are where the code differs.)                            *)
LogoutStatusAndBody ==
    pc = "done" /\ request.route = "logout" =>
        IF request.accept.present
        THEN (mapper = "html" /\ status = 200) \/ (mapper = "json" /\ status = 204)
        ELSE mapper = "json" /\ status = 200

IsForm(m) == m.type = "application" /\ m.subtype = "x-www-form-urlencoded"
IsJson(m) == m.type = "application" /\ m.subtype = "json"

(* What the HTML frontend sends is read as a form, whatever parameters the   *)
(* type comes with, and a type that breaks the grammar is turned down.       *)
FormsArrive ==
    pc = "done" /\ request.route # "logout" =>
        /\ (reader = "error") <=> (request.contentType.meaning = Malformed)
        /\ (request.contentType.meaning # Malformed /\ IsForm(request.contentType.meaning)) =>
              reader = "form"

(* Every request gets its answer: each turn of a loop takes something away.  *)
EveryRequestAnswered == <>(pc = "done")

(* What openapi.yaml says of every request with a body: it is JSON.          *)
JsonBodiesArrive ==
    pc = "done" /\ request.route # "logout" =>
        ((request.contentType.meaning # Malformed /\ IsJson(request.contentType.meaning)) =>
              reader = "json")
=============================================================================
