------------------------------- MODULE Snippet -------------------------------
(***************************************************************************)
(* services/snippet-service: snippets and how often each was read.  A read *)
(* is two SQL statements, and the error of the second one is ignored.      *)
(***************************************************************************)
EXTENDS Naturals

CONSTANTS
  Calls,        \* requests in flight at one time
  RowIds,       \* ids of snippets; a row is deleted for good, its id not reused
  MaxUses       \* bound on usage_count

VARIABLES
  snippets,     \* the rows
  gone,         \* ids of the rows there were (observed only)
  snippetCall   \* requests in flight

snippetVars == <<snippets, gone, snippetCall>>

\* public stands for the columns of an update; a name that is left out
\* becomes the empty string, one step with the others.
Row == [id : RowIds, public : BOOLEAN, uses : 0 .. MaxUses]

Idle == [op |-> "none"]
Call ==
  {Idle}
    \cup [op : {"count use"}, id : RowIds, seen : 0 .. MaxUses]
    \cup [op : {"page"}]

TypeOK ==
  /\ snippets \subseteq Row
  /\ \A s, t \in snippets : s.id = t.id => s = t
  /\ gone \subseteq RowIds
  /\ snippetCall \in [Calls -> Call]

Init ==
  /\ snippets = {}
  /\ gone = {}
  /\ snippetCall = [k \in Calls |-> Idle]

Become(k, call) == snippetCall' = [snippetCall EXCEPT ![k] = call]
Answer(k) == Become(k, Idle)

(* The table *)

GetSnippetByID(id) == {s \in snippets : s.id = id}

InsertSnippet(id, public) ==
  /\ GetSnippetByID(id) = {}
  /\ snippets' = snippets \cup {[id |-> id, public |-> public, uses |-> 0]}

\* One UPDATE of every column but usage_count; no error when no row is hit.
StoreSnippet(id, public) ==
  LET old == GetSnippetByID(id) IN
  snippets' = (snippets \ old) \cup {[s EXCEPT !.public = public] : s \in old}

DropSnippet(id) ==
  /\ GetSnippetByID(id) # {}
  /\ snippets' = snippets \ GetSnippetByID(id)
  /\ gone' = gone \cup {id}

-----------------------------------------------------------------------------

CreateSnippet(k, public) ==
  /\ snippetCall[k] = Idle
  /\ \E id \in RowIds \ gone : InsertSnippet(id, public)
  /\ UNCHANGED <<gone, snippetCall>>

GetSnippet(k, id) ==
  /\ snippetCall[k] = Idle
  /\ \E s \in GetSnippetByID(id) : Become(k, [op |-> "count use", id |-> id, seen |-> s.uses])
  /\ UNCHANGED <<snippets, gone>>

\* Slip: the count that was read, plus one.
IncrementRead(k) ==
  /\ snippetCall[k].op = "count use"
  /\ LET call == snippetCall[k]
         old == {s \in GetSnippetByID(call.id) : call.seen < MaxUses}
     IN  snippets' = (snippets \ old) \cup {[s EXCEPT !.uses = call.seen + 1] : s \in old}
  /\ Answer(k)
  /\ UNCHANGED gone

\* UPDATE ... SET usage_count = usage_count + 1; its error is ignored.
IncrementUsage(k) ==
  /\ snippetCall[k].op = "count use"
  /\ LET old == {s \in GetSnippetByID(snippetCall[k].id) : s.uses < MaxUses} IN
     \/ snippets' = (snippets \ old) \cup {[s EXCEPT !.uses = @ + 1] : s \in old}
     \/ UNCHANGED snippets
  /\ Answer(k)
  /\ UNCHANGED gone

\* Two statements: how many rows there are, and a page of them.
CountSnippets(k) ==
  /\ snippetCall[k] = Idle
  /\ Become(k, [op |-> "page"])
  /\ UNCHANGED <<snippets, gone>>

ListSnippets(k) ==
  /\ snippetCall[k].op = "page"
  /\ Answer(k)
  /\ UNCHANGED <<snippets, gone>>

\* is_public is NOT NULL, so a request without it fails.
UpdateSnippet(k, id, public) ==
  /\ snippetCall[k] = Idle
  /\ StoreSnippet(id, public)
  /\ UNCHANGED <<gone, snippetCall>>

DeleteSnippet(k, id) ==
  /\ snippetCall[k] = Idle
  /\ DropSnippet(id)
  /\ UNCHANGED snippetCall

\* The process ends and another starts: requests in flight are cut off, rows
\* stay.
Restart ==
  /\ snippetCall' = [k \in Calls |-> Idle]
  /\ UNCHANGED <<snippets, gone>>

Next ==
  \/ \E k \in Calls :
       \/ \E public \in BOOLEAN :
            CreateSnippet(k, public) \/ \E id \in RowIds : UpdateSnippet(k, id, public)
       \/ \E id \in RowIds : GetSnippet(k, id) \/ DeleteSnippet(k, id)
       \/ IncrementUsage(k) \/ CountSnippets(k) \/ ListSnippets(k)
  \/ Restart

Spec == Init /\ [][Next]_snippetVars

-----------------------------------------------------------------------------

\* The number of uses of a snippet never falls, whichever reads and updates
\* of it overlap: no request writes back a number it read.
UsesNeverFall ==
  [][\A s \in snippets, t \in snippets' : s.id = t.id => s.uses <= t.uses]_snippets
=============================================================================
