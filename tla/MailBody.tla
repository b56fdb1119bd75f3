------------------------------- MODULE MailBody ------------------------------
(****************************************************************************)
(* What the mail bridge shows of a message                                  *)
(* (Bench/Email/backend/astrea_email/gmail.py): the texts it keeps of an    *)
(* HTML body, the reader view it builds for heavy ones, and how a saved     *)
(* copy is brought up to date whenever its page is read.  Pure functions:   *)
(* an initial state is an input, there are no steps.                        *)
(****************************************************************************)
EXTENDS Naturals, Sequences, SequencesExt

CONSTANTS
  MaxTokens,  \* length of an HTML token stream
  MaxLines    \* length of a reader text, in lines

VARIABLE mail   \* the input of this behaviour

----------------------------------------------------------------------------
(* HTML: tags that are dropped with what they contain, two of which (meta)  *)
(* are never closed, a tag that is kept, and texts.                         *)

Dropped == {"script", "form", "meta"}
Token == [k : {"start", "end", "both"}, tag : {"script", "form", "meta", "p"}]
           \cup [k : {"text"}, tag : {""}]

\* EmailHtmlSanitizer and EmailTextExtractor: a dropped tag that starts is
\* skipped until the tag that started last is closed.
SkipStep(st, t, i) ==
  CASE t.k = "start" /\ t.tag \in Dropped -> [st EXCEPT !.skip = Append(@, t.tag)]
    [] t.k = "end" /\ st.skip # << >> ->
         IF t.tag = st.skip[Len(st.skip)] THEN [st EXCEPT !.skip = Front(@)] ELSE st
    [] t.k = "text" /\ st.skip = << >> -> [st EXCEPT !.kept = @ \cup {i}]
    [] OTHER -> st

\* mutant: a closing tag closes whatever is open
PopAny(st, t, i) ==
  IF t.k = "end" /\ st.skip # << >> THEN [st EXCEPT !.skip = Front(@)]
  ELSE SkipStep(st, t, i)

HandleToken(st, t, i) == SkipStep(st, t, i)

TextsKept(tokens) ==
  FoldLeftDomain(LAMBDA st, i : HandleToken(st, tokens[i], i),
                 [skip |-> << >>, kept |-> {}], tokens).kept

\* The element that starts at i is closed at j, with only closed dropped
\* elements between them.
Closes(tokens, i, j) ==
  LET depth(n) == Cardinality({m \in i .. n : tokens[m].k = "start" /\ tokens[m].tag \in Dropped})
                - Cardinality({m \in i .. n : tokens[m].k = "end" /\ tokens[m].tag \in Dropped})
  IN /\ i < j /\ tokens[j].tag = tokens[i].tag
     /\ tokens[i].k = "start" /\ tokens[j].k = "end"
     /\ depth(j) = 0 /\ \A n \in i .. j - 1 : depth(n) > 0

\* Dropped elements are closed in the order HTML asks for.
WellClosed(tokens) ==
  \A i \in DOMAIN tokens :
    tokens[i].tag \in Dropped =>
      /\ tokens[i].k = "start" => \E j \in DOMAIN tokens : Closes(tokens, i, j)
      /\ tokens[i].k = "end" => \E j \in DOMAIN tokens : Closes(tokens, j, i)

Outside(tokens) ==
  {t \in DOMAIN tokens : tokens[t].k = "text" /\
     ~\E i, j \in DOMAIN tokens : /\ i < t /\ t < j
                                  /\ tokens[i].tag \in Dropped /\ Closes(tokens, i, j)}

----------------------------------------------------------------------------
(* The reader view: cleaned lines become paragraphs, breaks and lists.      *)

Line == [k : {"text", "item"}, of : {"a", "b"}]
          \cup [k : {"blank", "open", "close"}, of : {""}]

\* clean_reader_text: one blank between blocks, none at the ends, and a line
\* that was there before is left out.
CleanStep(st, line) ==
  IF line.k = "blank"
  THEN [st EXCEPT !.out = IF @ # << >> /\ ~st.blank THEN Append(@, line) ELSE @, !.blank = TRUE]
  ELSE IF Contains(st.out, line) THEN st
  ELSE [st EXCEPT !.out = Append(@, line), !.blank = FALSE]

CleanReaderText(lines) ==
  LET out == FoldLeft(CleanStep, [out |-> << >>, blank |-> FALSE], lines).out
  IN IF out # << >> /\ out[Len(out)].k = "blank" THEN Front(out) ELSE out

Close(st) == IF st.inList THEN [out |-> Append(st.out, "</ul>"), inList |-> FALSE] ELSE st
Open(st) == IF st.inList THEN st ELSE [out |-> Append(st.out, "<ul>"), inList |-> TRUE]

\* reader_text_to_html, line by line.
RenderLine(st, line) ==
  CASE line.k = "open" -> Open(st)
    [] line.k = "close" -> Close(st)
    [] line.k = "item" -> LET o == Open(st) IN [o EXCEPT !.out = Append(@, "li")]
    [] line.k = "blank" -> IF st.inList THEN st ELSE [st EXCEPT !.out = Append(@, "br")]
    [] line.k = "text" -> LET c == Close(st) IN [c EXCEPT !.out = Append(@, "p")]

RenderReader(st, line) == RenderLine(st, line)

ReaderHtml(lines) ==
  Close(FoldLeft(RenderReader, [out |-> << >>, inList |-> FALSE], CleanReaderText(lines))).out

\* Whether a list is open before position n.
ListOpen(html, n) ==
  Cardinality({m \in 1 .. n - 1 : html[m] = "<ul>"}) - Cardinality({m \in 1 .. n - 1 : html[m] = "</ul>"})

----------------------------------------------------------------------------
(* A saved message.  A text is the number of its readable characters; 2 is  *)
(* HTML_READER_BODY_MIN_CHARS.  Heavy HTML is above the limits of           *)
(* should_use_reader_mode.                                                  *)

NoHtml == [kind |-> "none", chars |-> 0, wraps |-> 0]
Html == {NoHtml} \cup [kind : {"light", "heavy", "reader", "escaped"}, chars : 0 .. 3, wraps : 0 .. 1]
Saved == [mode : {"", "plain", "html", "reader"}, body : 0 .. 3, html : Html, shown : {"text", "html"}]

AsReader(chars) == [kind |-> "reader", chars |-> chars, wraps |-> 0]

\* centered_html wraps once.
Centered(html) == IF html.wraps > 0 THEN html ELSE [html EXCEPT !.wraps = 1]
CenteredHtml(html) == Centered(html)

Larger(a, b) == IF a > b THEN a ELSE b

\* upgrade_cached_message
Upgrade(m) ==
  IF m.mode = "reader" \/ m.html.kind = "escaped"
  THEN LET body == Larger(m.body, m.html.chars)
       IN [mode |-> "reader", body |-> body, html |-> AsReader(body), shown |-> "text"]
  ELSE IF m.html.kind = "heavy"
  THEN [mode |-> "reader", html |-> AsReader(m.html.chars), shown |-> "text",
        body |-> IF m.body < 2 THEN Larger(m.body, m.html.chars) ELSE m.body]
  ELSE IF m.html.kind # "none"
  THEN [m EXCEPT !.html = CenteredHtml(@), !.mode = "html", !.shown = "html"]
  ELSE [m EXCEPT !.mode = IF @ = "" THEN "plain" ELSE @]

\* normalize_message: what a fetched message is saved as, from its plain text
\* and its HTML before and after cleaning.
Fresh(body, before, after) ==
  IF before.kind = "heavy"
  THEN [mode |-> "reader", html |-> AsReader(before.chars), shown |-> "text",
        body |-> IF body < 2 THEN Larger(body, before.chars) ELSE body]
  ELSE IF after.kind = "none"
  THEN [mode |-> "plain", body |-> body, html |-> NoHtml, shown |-> "html"]
  ELSE [mode |-> "html", body |-> body, html |-> Centered(after), shown |-> "html"]

----------------------------------------------------------------------------
MailCases ==
  [kind : {"tokens"}, tokens : SeqOf(Token, MaxTokens)]
    \cup [kind : {"lines"}, lines : SeqOf(Line, MaxLines)]
    \cup [kind : {"saved"}, saved : Saved]
    \cup [kind : {"fresh"}, body : 0 .. 3, before : Html, after : Html]

BodySpec == mail \in MailCases /\ [][UNCHANGED mail]_mail

\* Of an HTML body whose dropped elements are closed, exactly the texts
\* outside them are kept, by the cleaned HTML and the reader view alike
\* (EmailHtmlSanitizer, EmailTextExtractor).
TextsOutsideAreKept ==
  mail.kind = "tokens" /\ WellClosed(mail.tokens) =>
    TextsKept(mail.tokens) = Outside(mail.tokens)

\* The reader view is well formed for any lines, markup that looks like lists
\* included: lists are closed and never nested, items are in lists and
\* paragraphs are not; and cleaning a cleaned text changes nothing
\* (reader_text_to_html, clean_reader_text).
ReaderIsWellFormed ==
  mail.kind = "lines" =>
    LET html == ReaderHtml(mail.lines)
        clean == CleanReaderText(mail.lines)
    IN /\ ListOpen(html, Len(html) + 1) = 0
       /\ \A n \in DOMAIN html :
            ListOpen(html, n) = IF html[n] \in {"li", "</ul>"} THEN 1 ELSE 0
       /\ CleanReaderText(clean) = clean

\* Reading a page again and again settles: what the second reading leaves is
\* never changed; and a fetched message whose cleaned HTML is within the
\* limits is read back as it was saved (upgrade_cached_message, read_cache).
UpgradeSettles ==
  /\ mail.kind = "saved" =>
       Upgrade(Upgrade(Upgrade(mail.saved))) = Upgrade(Upgrade(mail.saved))
  /\ mail.kind = "fresh" /\ mail.before.kind # "heavy" /\ mail.after.kind \in {"none", "light"} =>
       LET m == Fresh(mail.body, mail.before, mail.after) IN Upgrade(m) = m
=============================================================================
