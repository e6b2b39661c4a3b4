----------------------------- MODULE XmlReader -----------------------------
(***************************************************************************)
(* How the server threads of mdpsim read XML from their connections        *)
(* (read_node, parse_node, do_node and next_token of mdpsim/strxml.cc).    *)
(* The tokenizer remembers the bracket that ended the last text in a       *)
(* static variable, so all threads share it.                               *)
(*                                                                         *)
(* A symbol stands for a bracket or for a run of other characters.  A word *)
(* between brackets opens an element, closes it, is an empty element, or   *)
(* is not well formed; anything else opens an element of that name.        *)
(***************************************************************************)
EXTENDS Integers, Sequences, SequencesExt, FiniteSetsExt

CONSTANTS
  Threads,      \* server threads, one per connection
  Scripts,      \* what a client may send: sequences of elements, each a sequence of words
  Closing, Empty, Malformed, Text,   \* kinds of words; all others open an element
  Concurrent    \* whether a connection is accepted while another is being served

ASSUME XmlAssumption ==
  /\ Concurrent \in BOOLEAN /\ Scripts # {}
  /\ Text \cap (Closing \cup Empty \cup Malformed) = {} /\ Closing \cap Empty = {}

\* How deep in an element its words lead.
Opened(word) == IF word \in Closing THEN -1 ELSE IF word \in Empty \cup Malformed \cup Text THEN 0 ELSE 1
Depths(element) ==
  LET d[i \in 0..Len(element)] == IF i = 0 THEN 0 ELSE d[i - 1] + Opened(element[i])
  IN  d

\* What clients and the server write: the last word closes what the first one opened, a
\* tag is between any two texts, and there are no brackets in them.
Bracket == {"<", ">"}
Written(element) ==
  /\ element # <<>> /\ element[1] \notin Text
  /\ \A i \in 0..Len(element) : /\ Depths(element)[i] >= 0
                                /\ Depths(element)[i] = 0 <=> i \in {0, Len(element)}
  /\ \A i \in 1..Len(element) : element[i] \notin Bracket
  /\ \A i \in 1..(Len(element) - 1) : element[i] \notin Text \/ element[i + 1] \notin Text

ASSUME ScriptsAssumption ==
  /\ Scripts \subseteq Seq(Seq(STRING))
  /\ \A s \in Scripts : \A k \in 1..Len(s) : Written(s[k])

VARIABLES
  lastChar,     \* static char last_char of next_token, "" when 0
  script, sent, \* the elements the client of a thread has, and how many symbols of
                \* them it sends before it closes its end
  read,         \* symbols read from the connection
  pc,           \* where a thread is: "waiting", "call", "test", "reading", "returned",
                \* or "closed" when read_node has failed and host_problem returned
  where,        \* where in parse_node: "outer", "name" or "bracket"
  res,          \* the string next_token is building, or has returned
  depth, node,  \* parse_node's depth and the words of the node so far
  nodes         \* the nodes read_node has returned

input == <<script, sent>>
vars == <<lastChar, input, read, pc, where, res, depth, node, nodes>>

\* The symbols of an element, and of elements with the line breaks between them.
Encode(element) ==
  FlattenSeq([i \in 1..Len(element) |->
                IF element[i] \in Text THEN <<element[i]>> ELSE <<"<", element[i], ">">>])
Wire(elements) ==
  FlattenSeq([i \in 1..Len(elements) |-> Append(Encode(elements[i]), "newline")])

-----------------------------------------------------------------------------
(* next_token *)

\* pthread_create: the thread starts to serve its connection.
Accept(t) ==
  /\ pc[t] = "waiting"
  /\ Concurrent \/ \A u \in Threads : pc[u] \in {"waiting", "closed"}
  /\ pc' = [pc EXCEPT ![t] = "call"]
  /\ UNCHANGED <<lastChar, input, read, where, res, depth, node, nodes>>

\* The remembered bracket starts the result ...
TakeLastChar(t) ==
  /\ pc[t] = "call"
  /\ res' = [res EXCEPT ![t] = IF lastChar = "" THEN <<>> ELSE <<lastChar>>]
  /\ pc' = [pc EXCEPT ![t] = "test"]
  /\ UNCHANGED <<lastChar, input, read, where, depth, node, nodes>>

\* ... and is the whole of it: the variable is looked at again, and cleared.
TestLastChar(t) ==
  /\ pc[t] = "test"
  /\ pc' = [pc EXCEPT ![t] = IF lastChar = "" THEN "reading" ELSE "returned"]
  /\ lastChar' = ""
  /\ UNCHANGED <<input, read, where, res, depth, node, nodes>>

\* Mutant: the bracket that ends a text is not remembered.
ReadCharForgets(t) ==
  /\ pc[t] = "reading"
  /\ read[t] < sent[t]
  /\ read' = [read EXCEPT ![t] = @ + 1]
  /\ LET c == Wire(script[t])[read[t] + 1] IN
       /\ res' = [res EXCEPT ![t] = IF c \in Bracket /\ @ # <<>> THEN @ ELSE Append(@, c)]
       /\ pc' = [pc EXCEPT ![t] = IF c \in Bracket THEN "returned" ELSE "reading"]
  /\ UNCHANGED <<lastChar, input, where, depth, node, nodes>>

\* Characters are read up to a bracket, which is returned alone or remembered.
ReadChar(t) ==
  /\ pc[t] = "reading"
  /\ read[t] < sent[t]
  /\ read' = [read EXCEPT ![t] = @ + 1]
  /\ LET c == Wire(script[t])[read[t] + 1] IN
       \/ /\ c \in Bracket /\ res[t] = <<>>
          /\ res' = [res EXCEPT ![t] = <<c>>]
          /\ lastChar' = ""
          /\ pc' = [pc EXCEPT ![t] = "returned"]
       \/ /\ c \in Bracket /\ res[t] # <<>>
          /\ lastChar' = c
          /\ pc' = [pc EXCEPT ![t] = "returned"]
          /\ UNCHANGED res
       \/ /\ c \notin Bracket
          /\ res' = [res EXCEPT ![t] = Append(@, c)]
          /\ UNCHANGED <<lastChar, pc>>
  /\ UNCHANGED <<input, where, depth, node, nodes>>

\* The peer has closed the connection: read() fails and the empty string is returned.
ReadFails(t) ==
  /\ pc[t] = "reading"
  /\ read[t] = sent[t]
  /\ res' = [res EXCEPT ![t] = <<>>]
  /\ pc' = [pc EXCEPT ![t] = "returned"]
  /\ UNCHANGED <<lastChar, input, read, where, depth, node, nodes>>

-----------------------------------------------------------------------------
(* parse_node *)

Returned(t, place) == pc[t] = "returned" /\ where[t] = place

Continue(t, place) ==
  /\ where' = [where EXCEPT ![t] = place]
  /\ pc' = [pc EXCEPT ![t] = "call"]

\* Outside brackets: "<" starts a tag; other text is a child of the open element,
\* and is dropped where none is open.
ParseOuter(t) ==
  /\ Returned(t, "outer")
  /\ res[t] # <<>>
  /\ IF res[t] = <<"<">>
       THEN Continue(t, "name") /\ UNCHANGED node
       ELSE /\ Continue(t, "outer")
            /\ node' = IF depth[t] > 0 THEN [node EXCEPT ![t] = Append(@, res[t])] ELSE node
  /\ UNCHANGED <<lastChar, input, read, res, depth, nodes>>

WellFormed(r) == r # <<>> /\ (Len(r) = 1 => r[1] \notin Malformed)
\* A closing tag pops a stack that must not be empty.
Closes(r) == r # <<>> /\ Len(r) = 1 /\ r[1] \in Closing
Delta(r)  == IF Closes(r) THEN 0 - 1 ELSE IF Len(r) = 1 /\ r[1] \in Empty THEN 0 ELSE 1

\* do_node: the word between the brackets opens, closes or is an element.
ParseName(t) ==
  /\ Returned(t, "name")
  /\ WellFormed(res[t])
  /\ Closes(res[t]) => depth[t] > 0
  /\ node' = [node EXCEPT ![t] = Append(@, res[t])]
  /\ depth' = [depth EXCEPT ![t] = @ + Delta(res[t])]
  /\ Continue(t, "bracket")
  /\ UNCHANGED <<lastChar, input, read, res, nodes>>

\* The closing bracket of the outermost element completes the node.
ParseBracket(t) ==
  /\ Returned(t, "bracket")
  /\ res[t] = <<">">>
  /\ IF depth[t] = 0
       THEN /\ nodes' = [nodes EXCEPT ![t] = Append(@, node[t])]
            /\ node' = [node EXCEPT ![t] = <<>>]
       ELSE UNCHANGED <<nodes, node>>
  /\ Continue(t, "outer")
  /\ UNCHANGED <<lastChar, input, read, res, depth>>

\* streamerror, formaterror, or a closing tag with nothing open (a pop of an empty
\* stack, after which nothing is promised): read_node yields no node.
ParseFails(t) ==
  /\ \/ Returned(t, "outer") /\ res[t] = <<>>
     \/ Returned(t, "name") /\ (~WellFormed(res[t]) \/ (Closes(res[t]) /\ depth[t] = 0))
     \/ Returned(t, "bracket") /\ res[t] # <<">">>
  /\ pc' = [pc EXCEPT ![t] = "closed"]
  /\ UNCHANGED <<lastChar, input, read, where, res, depth, node, nodes>>

\* A client sends its elements, or the beginning of them if it dies.
Inputs == UNION {{s} \X (0..Len(Wire(s))) : s \in Scripts}

Init ==
  /\ lastChar = ""
  /\ \E f \in [Threads -> Inputs] : /\ script = [t \in Threads |-> f[t][1]]
                                   /\ sent = [t \in Threads |-> f[t][2]]
  /\ read = [t \in Threads |-> 0]
  /\ pc = [t \in Threads |-> "waiting"]
  /\ where = [t \in Threads |-> "outer"]
  /\ res = [t \in Threads |-> <<>>]
  /\ depth = [t \in Threads |-> 0]
  /\ node = [t \in Threads |-> <<>>]
  /\ nodes = [t \in Threads |-> <<>>]

Finished == (\A t \in Threads : pc[t] = "closed") /\ UNCHANGED vars

Next ==
  \/ \E t \in Threads :
       \/ Accept(t) \/ TakeLastChar(t) \/ TestLastChar(t) \/ ReadChar(t) \/ ReadFails(t)
       \/ ParseOuter(t) \/ ParseName(t) \/ ParseBracket(t) \/ ParseFails(t)
  \/ Finished

Spec == Init /\ [][Next]_vars

-----------------------------------------------------------------------------

\* The node an element stands for, and whether it is well formed.
NodeOf(element) == [i \in 1..Len(element) |-> <<element[i]>>]
Good(element)   == \A i \in 1..Len(element) : element[i] \notin Malformed

\* The nodes that stand for what the client of t has sent whole, up to the first
\* element that is not well formed.
NodesSent(t) ==
  LET whole == Max({k \in 0..Len(script[t]) :
                      /\ \A i \in 1..k : Good(script[t][i])
                      /\ Len(Wire(SubSeq(script[t], 1, k))) <= sent[t] + 1})
  IN  [i \in 1..whole |-> NodeOf(script[t][i])]

\* A thread reads from its connection what was sent over it: the nodes it gets are the
\* elements sent, in order, and it loses none before its client is gone or errs.
ReadsWhatWasSent ==
  \A t \in Threads :
    /\ IsPrefix(nodes[t], NodesSent(t))
    /\ pc[t] = "closed" => nodes[t] = NodesSent(t)
=============================================================================
