----------------------------- MODULE XmlParser -----------------------------
(***************************************************************************)
(* The XML parser and printer behind the monitor's configuration file      *)
(* (lib/tinyxmlparser.cpp and the Print methods of lib/tinyxml.cpp, built  *)
(* without TIXML_USE_STL).  The text is a sequence of lexemes, chosen one  *)
(* by one as the parser looks at them.  A document that is accepted is     *)
(* printed and parsed once more.                                           *)
(*                                                                         *)
(* Lexemes: "<" "</" "<!" "<!--" "<![CDATA[" "<?xml" ">" "/" "=" "'" "-->" *)
(* "]]>" " " (any white space), the names "a", "b" and "encoding", the     *)
(* references "&lt;" "&amp;" "&#x41;", and "#x41;" and "?" as characters   *)
(* that cannot begin a name.  An & that begins no reference, encodings and *)
(* positions in the file are left out.                                     *)
(***************************************************************************)
EXTENDS Integers, Sequences, FiniteSets, SequencesExt

CONSTANTS
    Lexemes,        \* the lexemes of a document
    Prefix,         \* how documents begin
    MaxLen          \* the longest document

VARIABLES
    in,             \* the text as far as it has been looked at
    eof,            \* the text ends there
    pos,            \* p: the index of the next lexeme
    stack,          \* the nodes being parsed: the document, its child, ...
    pc,             \* what is being read for the last of them
    err,            \* error: the document's error flag
    attr,           \* the attribute being read
    first           \* the tree of the first pass, or <<>>

vars == <<in, eof, pos, stack, pc, err, attr, first>>

Node(type) == [type |-> type, value |-> <<>>, attrs |-> <<>>, kids |-> <<>>]

Init ==
    /\ in = Prefix /\ eof = FALSE /\ pos = 1
    /\ stack = <<Node("document")>>
    /\ pc = "doc"
    /\ err = FALSE
    /\ attr = [name |-> <<>>, value |-> <<>>]
    /\ first = <<>>

Names == {"a", "b", "encoding"}
All == Names \cup {"<", "</", "<!", "<!--", "<![CDATA[", "<?xml", ">", "/", "=", "'", "-->", "]]>", " ",
                   "&lt;", "&amp;", "&#x41;", "#x41;", "?", "!", "--", "]]", "lt;", "amp;"}
Opens(l) == l \in {"<", "</", "<!", "<!--", "<![CDATA[", "<?xml"}    \* begins with <
Closes(l) == l \in {">", "-->", "]]>"}                              \* ends with >

\* Two lexemes that would be another one side by side.
Merges(l, m) == (l \in Names /\ m \in Names) \/ (l = "<" /\ m = "/")

Known(i) == eof \/ i <= Len(in)
At(i) == IF i \in DOMAIN in THEN in[i] ELSE "end"
Peek == At(pos)

\* The parser looks at one lexeme, and at the next one where the code does.
Ready ==
    /\ Known(pos)
    /\ (Peek \in {"<", "</", "/", "'"} \/ pc \in {"name", "cdata"}) => Known(pos + 1)

Feed ==
    /\ ~Ready /\ pc /= "done"
    /\ \/ \E l \in Lexemes : /\ Len(in) < MaxLen /\ ~Merges(At(Len(in)), l)
                             /\ in' = Append(in, l) /\ UNCHANGED eof
       \/ eof' = TRUE /\ UNCHANGED in
    /\ UNCHANGED <<pos, stack, pc, err, attr, first>>

Top == Last(stack)
SetTop(n) == [stack EXCEPT ![Len(stack)] = n]

\* The functions that begin with SkipWhiteSpace, at that point.
Skips == {"doc", "value", "attrs", "attr_eq", "attr_val", "end_tag", "decl_item"}

SkipWhiteSpace ==
    /\ Ready /\ pc \in Skips /\ Peek = " "
    /\ pos' = pos + 1
    /\ UNCHANGED <<in, eof, stack, pc, err, attr, first>>

At_(pcs, ls) == Ready /\ pc \in pcs /\ (pc \in Skips => Peek /= " ") /\ Peek \in ls

\* The parse is given up: a null pointer goes back to the document.
GiveUp ==
    /\ pc' = "done" /\ err' = TRUE
    /\ UNCHANGED <<in, eof, pos, stack, attr, first>>

-----------------------------------------------------------------------------
(* TiXmlNode::Identify *)

Identified ==
    CASE Peek = "<?xml" -> "decl"
      [] Peek = "<!--" -> "comment"
      [] Peek = "<![CDATA[" -> "cdata"
      [] Peek = "<" /\ At(pos + 1) \in Names -> "element"
      [] OTHER -> "unknown"

\* The value of an unknown node begins after its <.
Rest(l) == IF l = "</" THEN <<"/">> ELSE IF l = "<!" THEN <<"!">> ELSE <<>>

Begin(pcs) ==
    /\ Ready /\ pc \in pcs /\ Opens(Peek)
    /\ (pc = "value" => Peek /= "</")
    /\ stack' = Append(stack, [Node(Identified) EXCEPT
                                  !.value = IF Identified = "unknown" THEN Rest(Peek) ELSE <<>>])
    /\ pc' = IF Identified = "element" THEN "name" ELSE IF Identified = "decl" THEN "decl_item" ELSE Identified
    /\ pos' = pos + 1
    /\ UNCHANGED <<in, eof, err, attr, first>>

\* A node is complete: it is linked to its parent.  With null its Parse returned
\* no position: the document ends there without an error, an element with one.
Complete(node, null) ==
    LET up == Front(stack)
        parent == Last(up)
    IN /\ stack' = [up EXCEPT ![Len(up)].kids = Append(@, node)]
       /\ pc' = IF null THEN "done" ELSE IF Len(up) = 1 THEN "doc" ELSE "value"
       /\ err' = (err \/ (null /\ Len(up) > 1))

\* TiXmlDocument::Parse, at the end or where no node begins
DocumentEnd ==
    /\ At_({"doc"}, {l \in All : ~Opens(l)} \cup {"end"})
    /\ pc' = "done"
    /\ err' = (err \/ stack[1].kids = <<>>)
    /\ UNCHANGED <<in, eof, pos, stack, attr, first>>

-----------------------------------------------------------------------------
(* TiXmlElement::Parse *)

ElementName ==
    /\ Ready /\ pc = "name"
    /\ stack' = SetTop([Top EXCEPT !.value = <<Peek>>])
    /\ pos' = pos + 1
    /\ IF At(pos + 1) = "end" /\ eof THEN pc' = "done" /\ err' = TRUE
                                     ELSE pc' = "attrs" /\ UNCHANGED err
    /\ UNCHANGED <<in, eof, attr, first>>

EmptyTag ==
    /\ At_({"attrs"}, {"/"}) /\ At(pos + 1) = ">"
    /\ Complete(Top, FALSE)
    /\ pos' = pos + 2
    /\ UNCHANGED <<in, eof, attr, first>>

TagEnd ==
    /\ At_({"attrs"}, {">"})
    /\ pc' = "value"
    /\ pos' = pos + 1
    /\ UNCHANGED <<in, eof, stack, err, attr, first>>

\* TiXmlAttribute::Parse: the name
AttributeName(pcs) ==
    /\ At_(pcs, Names)
    /\ attr' = [name |-> <<Peek>>, value |-> <<>>]
    /\ pc' = "attr_eq"
    /\ pos' = pos + 1
    /\ UNCHANGED <<in, eof, stack, err, first>>

AttributeEquals ==
    /\ At_({"attr_eq"}, {"="})
    /\ pc' = "attr_val"
    /\ pos' = pos + 1
    /\ UNCHANGED <<in, eof, stack, err, attr, first>>

\* TiXmlBase::GetChar and GetEntity: the character a lexeme stands for
GetChar(l) ==
    CASE l = "&lt;" -> "<"
      [] l = "&amp;" -> "&"
      [] l = "&#x41;" -> "A"
      [] OTHER -> l

AttributeQuote ==
    /\ At_({"attr_val"}, {"'"})
    /\ pc' = "attr_text"
    /\ pos' = pos + 1
    /\ UNCHANGED <<in, eof, stack, err, attr, first>>

\* ReadText up to the quote, with all white space
AttributeText ==
    /\ Ready /\ pc = "attr_text" /\ Peek \notin {"'", "end"}
    /\ attr' = [attr EXCEPT !.value = Append(@, GetChar(Peek))]
    /\ pos' = pos + 1
    /\ UNCHANGED <<in, eof, stack, pc, err, first>>

Duplicate(n) == \E i \in DOMAIN Top.attrs : Top.attrs[i].name = n

\* The attribute is added, or given to the declaration.  That the text goes on is
\* checked by ReadText and by the caller.
AttributeDone(p) ==
    /\ attr' = [name |-> <<>>, value |-> <<>>]
    /\ pos' = p
    /\ IF At(p) = "end"
       THEN /\ IF Top.type = "decl" THEN Complete(Top, TRUE)
                                    ELSE pc' = "done" /\ err' = TRUE /\ UNCHANGED stack
       ELSE IF Top.type = "decl"
       THEN stack' = SetTop([Top EXCEPT !.value = attr.value]) /\ pc' = "decl" /\ UNCHANGED err
       ELSE IF Duplicate(attr.name)
       THEN pc' = "done" /\ err' = TRUE /\ UNCHANGED stack
       ELSE stack' = SetTop([Top EXCEPT !.attrs = Append(@, attr)]) /\ pc' = "attrs" /\ UNCHANGED err
    /\ UNCHANGED <<in, eof, first>>

AttributeEnd == Ready /\ pc = "attr_text" /\ Peek = "'" /\ AttributeDone(pos + 1)

\* A value without quotes ends at white space, / or >.  Its references are not
\* looked at.
Characters(l) ==
    CASE l = "&lt;" -> <<"&", "lt;">>
      [] l = "&amp;" -> <<"&", "amp;">>
      [] l = "&#x41;" -> <<"&", "#x41;">>
      [] OTHER -> <<l>>
Bare == {l \in All : l \notin {" ", "/", "'", "</"} /\ ~Closes(l)}
BareText ==
    /\ Ready /\ pc \in {"attr_val", "bare"} /\ (pc = "attr_val" => Peek /= " ")
    /\ Peek \in Bare
    /\ attr' = [attr EXCEPT !.value = @ \o Characters(Peek)]
    /\ pc' = "bare"
    /\ pos' = pos + 1
    /\ UNCHANGED <<in, eof, stack, err, first>>

BareEnd ==
    /\ Ready /\ pc \in {"attr_val", "bare"} /\ Peek \in {" ", "/", ">"} /\ (pc = "attr_val" => Peek /= " ")
    /\ AttributeDone(pos)

\* What ends the parse of an element with an error; the declaration's attributes
\* know no document to report it to.
Stray ==
    \/ At_({"attrs"}, (All \ (Names \cup {">", "/"})) \cup {"end"})
    \/ At_({"attrs"}, {"/"}) /\ At(pos + 1) /= ">"
    \/ At_({"attr_eq"}, (All \ {"="}) \cup {"end"})
    \/ At_({"attr_val"}, {"end"} \cup {l \in All : l \in {"</"} \/ (Closes(l) /\ l /= ">")})
    \/ Ready /\ pc = "attr_text" /\ Peek = "end"
    \/ Ready /\ pc = "bare" /\ Peek \in {"'", "end", "</", "-->", "]]>"}

Broken ==
    /\ Stray
    /\ IF Top.type = "decl"
       THEN Complete(Top, TRUE) /\ UNCHANGED <<in, eof, pos, attr, first>>
       ELSE GiveUp

\* TiXmlElement::ReadValue reached </: the end tag
EndTag ==
    /\ At_({"value"}, {"</"}) /\ At(pos + 1) = Top.value[1]
    /\ pc' = "end_tag"
    /\ pos' = pos + 2
    /\ UNCHANGED <<in, eof, stack, err, attr, first>>

EndTagDone ==
    /\ At_({"end_tag"}, {">"})
    /\ Complete(Top, FALSE)
    /\ pos' = pos + 1
    /\ UNCHANGED <<in, eof, attr, first>>

NoEndTag ==
    /\ \/ At_({"value"}, {"</"}) /\ At(pos + 1) /= Top.value[1]
       \/ At_({"value"}, {"end"})
       \/ At_({"end_tag"}, (All \ {">"}) \cup {"end"})
    /\ GiveUp

-----------------------------------------------------------------------------
(* TiXmlText::Parse and ReadText, with white space condensed *)

TextBegin ==
    /\ At_({"value"}, {l \in All : ~Opens(l)})
    /\ stack' = Append(stack, Node("text"))
    /\ pc' = "text"
    /\ UNCHANGED <<in, eof, pos, err, attr, first>>

\* White space is remembered and becomes one blank before the next character.
Text ==
    /\ Ready /\ pc = "text" /\ Peek /= "end" /\ ~Opens(Peek)
    /\ stack' = SetTop([Top EXCEPT
          !.value = IF Peek = " " THEN @
                    ELSE @ \o (IF @ /= <<>> /\ At(pos - 1) = " " THEN <<" ">> ELSE <<>>) \o <<GetChar(Peek)>>])
    /\ pos' = pos + 1
    /\ UNCHANGED <<in, eof, pc, err, attr, first>>

Blank(value) == \A i \in DOMAIN value : value[i] = " "

TextEnd ==
    /\ Ready /\ pc = "text" /\ (Peek = "end" \/ Opens(Peek))
    /\ IF Peek = "end" THEN Complete(Top, TRUE)
       ELSE IF Blank(Top.value) THEN stack' = Front(stack) /\ pc' = "value" /\ UNCHANGED err
       ELSE Complete(Top, FALSE)
    /\ UNCHANGED <<in, eof, pos, attr, first>>

-----------------------------------------------------------------------------
(* Comments, CDATA and unknown nodes: everything up to their end *)

Ends(t) == CASE t = "comment" -> {"-->"} [] t = "cdata" -> {"]]>"} [] t = "unknown" -> {">", "-->", "]]>"}

Raw ==
    /\ Ready /\ pc \in {"comment", "cdata", "unknown"} /\ Peek \notin Ends(pc) \cup {"end"}
    /\ stack' = SetTop([Top EXCEPT !.value = Append(@, Peek)])
    /\ pos' = pos + 1
    /\ UNCHANGED <<in, eof, pc, err, attr, first>>

\* A CDATA section needs a lexeme after it: ReadText returns null at the end.
RawEnd ==
    /\ Ready /\ pc \in {"comment", "cdata", "unknown"} /\ Peek \in Ends(pc) \cup {"end"}
    /\ LET p == IF Peek = "end" THEN pos ELSE pos + 1
       IN /\ pos' = p
          /\ Complete(IF Peek \in {"-->", "]]>"} /\ pc = "unknown"
                      THEN [Top EXCEPT !.value = Append(@, IF Peek = "-->" THEN "--" ELSE "]]")] ELSE Top,
                      pc = "cdata" /\ At(p) = "end")
    /\ UNCHANGED <<in, eof, attr, first>>

-----------------------------------------------------------------------------
(* TiXmlDeclaration::Parse: one item after the other *)

DeclarationEnd ==
    /\ Ready /\ pc \in {"decl", "decl_item"} /\ Peek = ">"
    /\ Complete(Top, FALSE)
    /\ pos' = pos + 1
    /\ UNCHANGED <<in, eof, attr, first>>

ReadOver(l) == l \notin {" ", ">"}

\* Whatever is not an attribute is read over, up to white space or >.
DeclarationItem ==
    /\ Ready /\ pc = "decl_item" /\ Peek \notin {" ", ">", "end", "encoding"}
    /\ pc' = "decl"
    /\ UNCHANGED <<in, eof, pos, stack, err, attr, first>>

DeclarationOver ==
    /\ Ready /\ pc = "decl" /\ Peek \notin {">", "end"}
    /\ IF ReadOver(Peek) THEN pos' = pos + 1 /\ UNCHANGED pc ELSE pc' = "decl_item" /\ UNCHANGED pos
    /\ UNCHANGED <<in, eof, stack, err, attr, first>>

DeclarationCut ==
    /\ Ready /\ pc \in {"decl", "decl_item"} /\ Peek = "end"
    /\ Complete(Top, TRUE)
    /\ UNCHANGED <<in, eof, pos, attr, first>>

-----------------------------------------------------------------------------
(* The Print methods *)

\* TiXmlBase::EncodeString, one character; & before a hexadecimal reference stays
Encode(c, next) ==
    CASE c = "<" -> "&lt;"
      [] c = "&" /\ next /= "#x41;" -> "&amp;"
      [] c = "&" /\ next = "#x41;" -> "&"
      [] OTHER -> c

\* & and #x41; side by side are a reference when they are read again.
Joined(s) ==
    FoldLeft(LAMBDA t, l : IF l = "#x41;" /\ t /= <<>> /\ Last(t) = "&"
                           THEN Append(Front(t), "&#x41;") ELSE Append(t, l), <<>>, s)

EncodeString(v) ==
    Joined([i \in DOMAIN v |-> Encode(v[i], IF i < Len(v) THEN v[i + 1] ELSE "end")])

PrintAttributes(as) ==
    FoldLeft(LAMBDA t, a : t \o <<" ">> \o a.name \o <<"=", "'">> \o EncodeString(a.value) \o <<"'">>, <<>>, as)

\* The value of an unknown node joins with its < to the lexeme it came from.
PrintUnknown(v) ==
    (IF v /= <<>> /\ Head(v) \in {"/", "!"}
     THEN <<IF Head(v) = "/" THEN "</" ELSE "<!">> \o Tail(v) ELSE <<"<">> \o v) \o <<">">>

PrintText(v) == EncodeString(v)
PrintCData(v) == <<" ", "<![CDATA[">> \o v \o <<"]]>", " ">>
PrintComment(v) == <<"<!--">> \o v \o <<"-->">>
PrintDeclaration(encoding) ==
    <<"<?xml", " ">> \o (IF encoding = <<>> THEN <<>> ELSE <<"encoding", "=", "'">> \o encoding \o <<"'", " ">>)
    \o <<"?", ">">>

RECURSIVE Print_(_)
Print_(n) ==
    CASE n.type = "text" -> PrintText(n.value)
      [] n.type = "cdata" -> PrintCData(n.value)
      [] n.type = "comment" -> PrintComment(n.value)
      [] n.type = "unknown" -> PrintUnknown(n.value)
      [] n.type = "decl" -> PrintDeclaration(n.value)
      [] n.type = "element" ->
           <<"<">> \o n.value \o PrintAttributes(n.attrs) \o
           (IF n.kids = <<>> THEN <<" ", "/", ">">>
            ELSE IF Len(n.kids) = 1 /\ n.kids[1].type = "text"
            THEN <<">">> \o Print_(n.kids[1]) \o <<"</">> \o n.value \o <<">">>
            ELSE <<">">> \o FoldLeft(LAMBDA t, k : t \o (IF k.type \in {"text", "cdata"} THEN <<>> ELSE <<" ">>) \o Print_(k),
                                     <<>>, n.kids)
                 \o <<" ", "</">> \o n.value \o <<">">>)

PrintDocument(d) == FoldLeft(LAMBDA t, k : t \o Print_(k) \o <<" ">>, <<>>, d.kids)

\* An accepted document is printed and loaded again.
Again ==
    /\ pc = "done" /\ ~err /\ first = <<>>
    /\ first' = stack[1].kids
    /\ in' = PrintDocument(stack[1]) /\ eof' = TRUE /\ pos' = 1
    /\ stack' = <<Node("document")>> /\ pc' = "doc"
    /\ UNCHANGED <<err, attr>>

Step ==
    \/ SkipWhiteSpace \/ Begin({"doc", "value"}) \/ DocumentEnd
    \/ ElementName \/ EmptyTag \/ TagEnd
    \/ AttributeName({"attrs"}) \/ AttributeEquals \/ AttributeQuote \/ AttributeText \/ AttributeEnd
    \/ BareText \/ BareEnd \/ Broken
    \/ EndTag \/ EndTagDone \/ NoEndTag
    \/ TextBegin \/ Text \/ TextEnd \/ Raw \/ RawEnd
    \/ DeclarationEnd \/ DeclarationItem \/ DeclarationOver \/ DeclarationCut
    \/ (pc = "decl_item" /\ Peek = "encoding" /\ AttributeName({"decl_item"}))

Over == pc = "done" /\ (err \/ first /= <<>>)

Next == Feed \/ Step \/ Again \/ (Over /\ UNCHANGED vars)

Spec == Init /\ [][Next]_vars
-----------------------------------------------------------------------------
(* Properties *)

\* A document that was accepted is accepted again as it is printed, with the same
\* nodes: Print writes what Parse reads.
Reparsed == (pc = "done" /\ first /= <<>>) => (~err /\ stack[1].kids = first)

=============================================================================
