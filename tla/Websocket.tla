------------------------------ MODULE Websocket ------------------------------
(***************************************************************************)
(* The text of a websocket message (src/src/websocket.rs): the server      *)
(* compresses it in the manner of LZW, and decode undoes it.  A code is a  *)
(* character or the place of a string in a table that both sides build as  *)
(* they go, from place 1 (code 256).                                       *)
(***************************************************************************)
EXTENDS Integers, Sequences, SequencesExt

CONSTANTS Char,       (* characters, codes below 256                        *)
          MaxText     (* bound of the model on the length of a text         *)

VARIABLES reading,    (* "encode", "decode" or "decoded"                    *)
          text,       (* what the server says                               *)
          string,     (* the server's longest known string to its end       *)
          learnt,     (* the server's table                                 *)
          codes,      (* what it has sent and decode has not yet read       *)
          e,          (* decode's table                                     *)
          c,          (* the first character of the string before           *)
          f,          (* the string before                                  *)
          g           (* what is decoded                                    *)

wire == <<text, string, learnt, codes>>
decoder == <<e, c, f, g>>
textVars == <<reading, wire, decoder>>

Code(kind, n) == [kind |-> kind, n |-> n]

TextInit ==
    /\ reading = "encode"
    /\ text = << >> /\ string = << >> /\ learnt = << >> /\ codes = << >>
    /\ e = << >> /\ c = 0 /\ f = << >> /\ g = << >>
-----------------------------------------------------------------------------
(* The server *)

Known(s) == Len(s) = 1 \/ \E i \in DOMAIN learnt : learnt[i] = s

CodeOf(s) ==
    IF Len(s) = 1 THEN Code("char", s[1])
    ELSE Code("table", CHOOSE i \in DOMAIN learnt : learnt[i] = s)

\* The next character: a string is sent when with it it is not known, and
\* becomes known then.
Say(char) ==
    /\ reading = "encode"
    /\ Len(text) < MaxText
    /\ text' = Append(text, char)
    /\ IF Known(Append(string, char))
       THEN /\ string' = Append(string, char)
            /\ UNCHANGED <<learnt, codes>>
       ELSE /\ string' = << char >>
            /\ learnt' = Append(learnt, Append(string, char))
            /\ codes' = Append(codes, CodeOf(string))
    /\ UNCHANGED <<reading, decoder>>

Send ==
    /\ reading = "encode"
    /\ codes' = IF text = << >> THEN << >> ELSE Append(codes, CodeOf(string))
    /\ reading' = "decode"
    /\ UNCHANGED <<text, string, learnt, decoder>>
-----------------------------------------------------------------------------
(* decode *)

\* Its first code is a character.
DecodeFirst ==
    /\ reading = "decode"
    /\ codes # << >> /\ g = << >>
    /\ c' = Head(codes).n
    /\ f' = << c' >>
    /\ g' = << c' >>
    /\ codes' = Tail(codes)
    /\ UNCHANGED <<reading, text, string, learnt, e>>

\* Mutant: a code that is not in the table yet stands for the string before it.
NotYetShort == f

\* A code that is not in the table yet: the string before, and its first
\* character once more.
NotYet == Append(f, c)

Value(code) ==
    IF code.kind = "char" THEN << code.n >>
    ELSE IF code.n \in DOMAIN e THEN e[code.n]
    ELSE NotYet

DecodeNext ==
    /\ reading = "decode"
    /\ codes # << >> /\ g # << >>
    /\ LET value == Value(Head(codes))
       IN  /\ g' = g \o value
           /\ c' = value[1]
           /\ e' = Append(e, Append(f, value[1]))
           /\ f' = value
    /\ codes' = Tail(codes)
    /\ UNCHANGED <<reading, text, string, learnt>>

Decoded ==
    /\ reading = "decode"
    /\ codes = << >>
    /\ reading' = "decoded"
    /\ UNCHANGED <<wire, decoder>>

TextStep == Send \/ DecodeFirst \/ DecodeNext \/ Decoded \/ \E char \in Char : Say(char)

TextSpec == TextInit /\ [][TextStep]_textVars
-----------------------------------------------------------------------------
(* Properties *)

\* What the server says by the longest strings it knows, decode gives back: at
\* every code what it has so far is what the server said, its table is the
\* server's as far as it goes, and at the end nothing is missing.
DecodedAsSent ==
    /\ reading = "decode" => IsPrefix(g, text) /\ (f # << >> => IsPrefix(e, learnt))
    /\ reading = "decoded" => g = text
=============================================================================
