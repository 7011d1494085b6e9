----------------------------- MODULE ServerTiming -----------------------------
(***************************************************************************)
(* RequestTelemetry.as_server_timing: the legs of a request as the value   *)
(* of a Server-Timing header, with free text in the descriptions.          *)
(*                                                                         *)
(* Text is a sequence of characters that stand for their kind: "x" for any *)
(* printable ASCII character without a meaning in the header, "foreign"    *)
(* for any outside printable ASCII (control characters included).  Names,  *)
(* "dur" and durations are one character each: nothing looks into them.    *)
(***************************************************************************)
EXTENDS Naturals, Sequences, SequencesExt

Chars == {"x", ",", ";", "=", "quote", "backslash", "foreign"}

-----------------------------------------------------------------------------
(* _sanitize_desc                                                          *)

\* text.replace for a character, re.sub for a class of them.
Replaced(text, chars, by) ==
    FlattenSeq([i \in 1..Len(text) |-> IF text[i] \in chars THEN by ELSE <<text[i]>>])

Whitelisted(desc) == Replaced(desc, {"foreign", ",", ";", "="}, <<>>)

\* Mutant: the quotes are escaped before the backslashes.
EscapedQuotesFirst(text) ==
    Replaced(Replaced(text, {"quote"}, <<"backslash", "quote">>),
             {"backslash"}, <<"backslash", "backslash">>)

Escaped(text) ==
    Replaced(Replaced(text, {"backslash"}, <<"backslash", "backslash">>),
             {"quote"}, <<"backslash", "quote">>)

SanitizeDesc(desc) == Escaped(Whitelisted(desc))

-----------------------------------------------------------------------------
(* as_server_timing                                                        *)

\* A leg: its name, its description (empty: none) and its duration.
Render(leg) ==
    LET text == SanitizeDesc(leg.desc)
        quoted == <<"desc", "=", "quote">> \o text \o <<"quote", ";">>
    IN  <<leg.name, ";">> \o (IF text = <<>> THEN <<>> ELSE quoted) \o <<"dur", "=", leg.dur>>

\* ", ".join(entries)
Header(legs) ==
    FlattenSeq([i \in 1..Len(legs) |->
                  (IF i = 1 THEN <<>> ELSE <<",", "x">>) \o Render(legs[i])])

-----------------------------------------------------------------------------
(* A reader of the header that, like request-o-matic's, splits on every    *)
(* comma and semicolon, and an RFC 7230 reader of a quoted string.         *)

SplitAt(text, ch) ==
    LET parts[n \in 0..Len(text)] ==
          IF n = 0 THEN << <<>> >>
          ELSE LET before == parts[n - 1]
               IN  IF text[n] = ch THEN Append(before, <<>>)
                   ELSE [before EXCEPT ![Len(before)] = Append(@, text[n])]
    IN  parts[Len(text)]

\* What is read of a string's body: escaped means the last character was an
\* escape.  A bare quote inside, or an escape without a character, is no text.
Read(body) ==
    LET read[n \in 0..Len(body)] ==
          IF n = 0 THEN [text |-> <<>>, escaped |-> FALSE, ok |-> TRUE]
          ELSE LET so == read[n - 1]
               IN  IF so.escaped
                     THEN [so EXCEPT !.text = Append(@, body[n]), !.escaped = FALSE]
                   ELSE IF body[n] = "backslash" THEN [so EXCEPT !.escaped = TRUE]
                   ELSE IF body[n] = "quote" THEN [so EXCEPT !.ok = FALSE]
                   ELSE [so EXCEPT !.text = Append(@, body[n])]
    IN  read[Len(body)]

\* The text between the quotes of desc="...".
Unquoted(param) ==
    LET whole == Read(SubSeq(param, 4, Len(param) - 1))
    IN  IF whole.ok /\ ~ whole.escaped THEN whole.text ELSE <<"unreadable">>

ReadEntry(entry) ==
    LET params == SplitAt(entry, ";")
    IN  [name |-> Last(params[1]),
         desc |-> IF Len(params) = 2 THEN <<>> ELSE Unquoted(params[2]),
         dur |-> Last(Last(params)),
         params |-> Len(params)]

ReadHeader(header) ==
    LET entries == SplitAt(header, ",")
    IN  [i \in 1..Len(entries) |-> ReadEntry(entries[i])]

\* What a reader should get from the legs.
Expected(legs) ==
    [i \in 1..Len(legs) |->
       LET text == Whitelisted(legs[i].desc)
       IN  [name |-> legs[i].name, desc |-> text, dur |-> legs[i].dur,
            params |-> IF text = <<>> THEN 2 ELSE 3]]

-----------------------------------------------------------------------------
\* The header of these legs reads back as the legs: no text splits an entry or
\* adds a parameter, what the whitelist keeps is read unharmed, an empty rest
\* leaves no description, and the header is printable ASCII.
ReadsBack(legs) ==
    /\ ReadHeader(Header(legs)) = Expected(legs)
    /\ ~ Contains(Header(legs), "foreign")
=============================================================================
