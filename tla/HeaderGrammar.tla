---------------------------- MODULE HeaderGrammar ----------------------------
(***************************************************************************)
(* How Accept and Content-Type headers are written (RFC 7231, 5.3.2 and      *)
(* 3.1.1.1, which the comments of content-type.go cite), independent of how  *)
(* they are parsed: a header is made of pieces that follow each other, and   *)
(* every piece says something of the range it belongs to.                    *)
(*                                                                           *)
(* Of the RFC, what the code turns down is left out: an element of the list  *)
(* that is empty, and an extension without a value.                          *)
(***************************************************************************)
EXTENDS Negotiation

(* A run of whitespace.                                                      *)
Blank == " "

Kinds == {"type", "parameter", "weight", "extension"}

(* A piece is a media type, or a name and its value; of numbers the ranges,  *)
(* before and after count the tokens of whitespace around the words.         *)
Piece == [kind : Kinds, of : Nat \ {0}, before : 0 .. 1, name : Words,
          value : Words, after : 0 .. 1]

Opens(kind) == IF kind = "type" THEN Comma ELSE Semicolon
Joins(kind) == IF kind = "type" THEN "/" ELSE "="

(* Only the first piece of a header has nothing in front of it.              *)
Lead(i) == IF i = 1 THEN 0 ELSE 1

Width(p, lead) == lead + p.before + 3 + p.after

(* The piece p is written in t, from the place c on: what opens it, its words *)
(* with what joins them, whitespace before and after them.                   *)
Stands(t, p, lead, c) ==
    LET w == c + lead + p.before
    IN  /\ c + Width(p, lead) <= Len(t) + 1
        /\ lead = 1 => t[c] = Opens(p.kind)
        /\ p.before = 1 => t[c + lead] = Blank
        /\ t[w] = p.name /\ t[w + 1] = Joins(p.kind) /\ t[w + 2] = p.value
        /\ p.after = 1 => t[w + 3] = Blank

(* The pieces ps begin at the places cut, and the last one ends before the   *)
(* last of them.                                                             *)
Derives(t, ps, cut) ==
    /\ ps \in Seq(Piece) /\ cut \in Seq(Nat \ {0}) /\ Len(cut) = Len(ps) + 1
    /\ cut[1] = 1
    /\ \A i \in 1 .. Len(ps) : /\ Stands(t, ps[i], Lead(i), cut[i])
                               /\ cut[i + 1] = cut[i] + Width(ps[i], Lead(i))

Whole(t, ps, cut) == Derives(t, ps, cut) /\ cut[Len(ps) + 1] = Len(t) + 1

(* No type but "*" goes with a wildcard for the type.                        *)
ProperType(p) == p.name = "*" => p.value = "*"

(* A type, its parameters, the weight and the extensions, in this order.     *)
Fits(ps, i) ==
    LET p == ps[i]
        last == ps[i - 1]
    IN  IF p.kind = "type"
        THEN ProperType(p) /\ p.of = (IF i = 1 THEN 1 ELSE last.of + 1)
        ELSE /\ i > 1 /\ p.of = last.of
             /\ p.kind \in {"parameter", "weight"} => last.kind \in {"type", "parameter"}
             /\ p.kind = "parameter" => p.name # "q"
             /\ p.kind = "weight" => p.name = "q" /\ p.value \in DOMAIN Weight
             /\ p.kind = "extension" => last.kind \in {"weight", "extension"}

AcceptGrammar(ps) == \A i \in 1 .. Len(ps) : Fits(ps, i)

TypeGrammar(ps) ==
    /\ ps # <<>>
    /\ \A i \in 1 .. Len(ps) :
          /\ ps[i].kind = IF i = 1 THEN "type" ELSE "parameter"
          /\ ps[i].of = 1
    /\ ProperType(ps[1])

-----------------------------------------------------------------------------
(* What the pieces mean.                                                     *)

Of(ps, j, kind) == {i \in 1 .. Len(ps) : ps[i].kind = kind /\ ps[i].of = j}

(* Of two parameters with the same name the later one counts.                *)
LastOf(ps, I) ==
    {<<ps[i].name, ps[i].value>> :
        i \in {l \in I : \A m \in I : m > l => ps[m].name # ps[l].name}}

Types(ps, j, m) ==
    /\ \E i \in 1 .. Len(ps) : /\ Of(ps, j, "type") = {i}
                               /\ m.type = ps[i].name /\ m.subtype = ps[i].value
    /\ m.parameters = LastOf(ps, Of(ps, j, "parameter"))

(* A range that no weight is given to has the weight 1.                      *)
Says(ps, j, r) ==
    /\ Types(ps, j, r)
    /\ IF Of(ps, j, "weight") = {} THEN r.weight = 1000
       ELSE \A i \in Of(ps, j, "weight") : r.weight = Weight[ps[i].value]

Count(ps) == IF ps = <<>> THEN 0 ELSE ps[Len(ps)].of

WrittenAs(t, rs, ps, cut) ==
    /\ Whole(t, ps, cut) /\ AcceptGrammar(ps)
    /\ Len(rs) = Count(ps)
    /\ \A j \in 1 .. Len(rs) : Says(ps, j, rs[j])

(* The Accept header t lists the ranges rs.                                  *)
Written(t, rs) == \E ps, cut : WrittenAs(t, rs, ps, cut)

(* The Content-Type header t names the media type m.                         *)
TypeWritten(t, m) ==
    \E ps, cut : Whole(t, ps, cut) /\ TypeGrammar(ps) /\ Types(ps, 1, m) /\ m.made

(* A token Blank is all of a run of whitespace.                              *)
Tokenised(t) == \A i \in 1 .. Len(t) - 1 : t[i] = Blank => t[i + 1] # Blank

-----------------------------------------------------------------------------
(* The meaning a header has been given is the one it has by the grammar.     *)

AcceptMeans(h) ==
    /\ Tokenised(h.tokens)
    /\ IF h.meaning = Malformed THEN \A rs \in Seq(MediaRange) : ~Written(h.tokens, rs)
       ELSE Written(h.tokens, h.meaning)

ContentTypeMeans(h) ==
    /\ Tokenised(h.tokens)
    /\ ~h.present => h.meaning # Malformed
    /\ h.present =>
         IF h.meaning = Malformed THEN \A m \in MediaType : ~TypeWritten(h.tokens, m)
         ELSE TypeWritten(h.tokens, h.meaning)

AcceptHeadersMean == \A r \in Requests : AcceptMeans(r.accept)

ContentTypesMean == \A r \in Requests : ContentTypeMeans(r.contentType)
=============================================================================
