---------------------------- MODULE MCNegotiation ----------------------------
(***************************************************************************)
(* Headers for Negotiation: up to three ranges over the two types the       *)
(* program has and one it has not, with and without parameters, weights and *)
(* whitespace; and what is left of such a header, or becomes of it, when a  *)
(* token is lost or slips in.                                               *)
(***************************************************************************)
EXTENDS Negotiation, SequencesExt, TLC

CONSTANT malformed

MCWords == {"*", "q", "text", "html", "application", "json", "0", "0.5", "2",
            "charset", "utf-8", "x-www-form-urlencoded"}
MCWeight == ("0" :> 0) @@ ("0.5" :> 500)

Is(type, subtype) == [type |-> type, subtype |-> subtype, parameters |-> {},
                      weight |-> 1000]
Weighs(r, w) == [r EXCEPT !.weight = w]
Utf8(r) == [r EXCEPT !.parameters = {<<"charset", "utf-8">>}]

Kinds == {Is("text", "html"), Is("text", "*"), Is("*", "*"),
          Is("application", "json")}
Few == {Is("text", "html"), Weighs(Is("application", "json"), 500),
        Weighs(Is("text", "*"), 500), Weighs(Is("*", "*"), 500),
        Weighs(Is("application", "json"), 0)}
Many == Kinds \cup {Weighs(r, w) : r \in Kinds, w \in {0, 500}}
          \cup {Utf8(r) : r \in Kinds}

(* How a range is written; sp is where whitespace may be.                    *)
Write(r, sp) ==
    sp \o <<r.type, "/", r.subtype>> \o sp
      \o (IF r.parameters = {} THEN <<>>
          ELSE <<";">> \o sp \o <<"charset", "=", "utf-8">> \o sp)
      \o (IF r.weight = 1000 THEN <<>>
          ELSE <<";">> \o sp \o <<"q", "=", IF r.weight = 0 THEN "0" ELSE "0.5">> \o sp)
      \* An extension parameter after the smaller weight.
      \o (IF r.weight # 500 THEN <<>>
          ELSE <<";">> \o sp \o <<"charset", "=", "utf-8">> \o sp)

WriteAll(rs, sp) ==
    FlattenSeq([j \in DOMAIN rs |-> (IF j = 1 THEN <<>> ELSE <<",">>) \o Write(rs[j], sp)])

Present(tokens, meaning) ==
    [present |-> TRUE, tokens |-> tokens, meaning |-> meaning]

SeqsOf(S, m) == UNION {[1 .. l -> S] : l \in 1 .. m}

Proper ==
    {Present(WriteAll(rs, <<>>), rs) : rs \in SeqsOf(Many, 2) \cup SeqsOf(Few, 3)}
      \cup {Present(WriteAll(rs, <<" ">>), rs) : rs \in SeqsOf(Few, 2)}

(* A header with two words side by side would be another one.                *)
Tokenised(t) == \A j \in 1 .. Len(t) - 1 : ~(t[j] \in Words /\ t[j + 1] \in Words)

Lost(t) == {RemoveAt(t, j) : j \in DOMAIN t}
Slipped(t) == {InsertAt(t, j, c) : j \in 1 .. Len(t) + 1, c \in {",", ";", "=", "/", "?"}}

Damaged ==
    LET whole == {WriteAll(<<r>>, <<>>) : r \in Many}
                   \cup {WriteAll(<<Is("text", "html"), r>>, <<>>) : r \in Few}
        broken == UNION {Lost(t) \cup Slipped(t) : t \in whole}
                    \cup {<<"*", "/", "json">>,
                          <<"text", "/", "html", ";", "q", "=", "2">>}
    IN  {Present(t, malformed) : t \in {b \in broken : Tokenised(b) /\ b # <<>>}}

NoHeader(meaning) == [present |-> FALSE, tokens |-> <<>>, meaning |-> meaning]

AcceptHeaders == Proper \cup Damaged \cup {NoHeader(<<>>), Present(<<>>, <<>>)}

-----------------------------------------------------------------------------

Type(type, subtype, parameters) ==
    [type |-> type, subtype |-> subtype, parameters |-> parameters, made |-> TRUE]

ContentTypeHeaders ==
    {NoHeader(NoType),
     Present(<<"application", "/", "json">>, Type("application", "json", {})),
     Present(<<" ", "application", "/", "x-www-form-urlencoded", " ", ";", " ",
               "charset", "=", "utf-8", " ">>,
             Type("application", "x-www-form-urlencoded", {<<"charset", "utf-8">>})),
     Present(<<"application", "/", "x-www-form-urlencoded">>,
             Type("application", "x-www-form-urlencoded", {})),
     Present(<<"application", "/">>, malformed),
     Present(<<"application", "/", "json", ";", "charset", "=">>, malformed),
     Present(<<"application", "/", "json", ",", "text", "/", "html">>, malformed)}

(* A logout has no body; which reader a body gets has little to do with the  *)
(* Accept header.                                                            *)
MCRequests ==
    {[route |-> "logout", accept |-> a, contentType |-> NoHeader(NoType)] :
        a \in AcceptHeaders}
      \cup {[route |-> b, accept |-> a, contentType |-> c] : b \in {"addItem", "login"},
        a \in {NoHeader(<<>>), Present(<<"?">>, malformed),
              Present(WriteAll(<<Is("text", "html")>>, <<>>), <<Is("text", "html")>>)}, c \in ContentTypeHeaders}
=============================================================================
