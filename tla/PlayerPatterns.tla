---------------------------- MODULE PlayerPatterns ----------------------------
(***************************************************************************)
(* The patterns that mark players, the page of the filter dialog that      *)
(* edits them and the file that keeps them.  The page works on a second    *)
(* list of pointers to the same structures: one that is to be changed is   *)
(* copied first unless it is dirty, that is, not in the list in use.       *)
(* A text stands for a mode with its pattern; a player is named as the     *)
(* text that matches him.                                                  *)
(***************************************************************************)
EXTENDS Naturals, FiniteSets, Sequences, SequencesExt

CONSTANTS
  Ids,          (* addresses of patterns                                     *)
  Texts,        (* what a pattern may be; "" is the empty one                *)
  Broken,       (* texts that are faulty regular expressions                 *)
  Groups,       (* red, green, blue; New gives the first                     *)
  FirstGroup,
  SavedBefore,  (* contents the file may have at first                       *)
  MaxEdits      (* bound: steps that edit                                    *)

VARIABLES
  heap,      (* the patterns that are allocated; own (history) is the text   *)
             (* the user last gave it                                        *)
  players,   (* the list in use                                              *)
  curplrs,   (* the list of the page                                         *)
  open,      (* the page exists                                              *)
  row,       (* current_row, 0 for none                                      *)
  entry,     (* what pattern_entry and the mode buttons show                 *)
  shown,     (* rows of pattern_clist: text and groups                       *)
  saved,     (* the file                                                     *)
  applied,   (* the verdicts when last_changed was last set                  *)
  steps      (* bound                                                        *)

vars == <<heap, players, curplrs, open, row, entry, shown, saved, applied, steps>>

-----------------------------------------------------------------------------
(* Patterns.                                                               *)

\* What is written of a pattern.
Body == [text: Texts, groups: SUBSET Groups, comment: BOOLEAN]

\* player_pattern_compile: "" for no compiled data.
Compiled(text) == IF text \in Broken THEN "" ELSE text

Pattern(b) == [text |-> b.text, groups |-> b.groups, comment |-> b.comment,
               data |-> Compiled(b.text), dirty |-> TRUE, own |-> b.text]

\* The file has no more patterns than there are addresses.
PatternsAssumption ==
  /\ Ids # {} /\ "" \in Texts /\ Broken \subseteq Texts /\ FirstGroup \in Groups /\ MaxEdits \in Nat
  /\ \A file \in SavedBefore :
       /\ file \in Seq(Body)
       /\ \E id \in [DOMAIN file -> Ids] : IsInjective(id)

BodyOf(p) == [text |-> p.text, groups |-> p.groups, comment |-> p.comment]
Contents(h, list) == [i \in DOMAIN list |-> BodyOf(h[list[i]])]

\* player_filter: the groups of a player of each name.
Verdicts(h, list) ==
  [t \in Texts \ {""} |-> UNION {h[p].groups : p \in {q \in ToSet(list) : h[q].data = t}}]

\* player_pattern_new.
Fresh(h) == CHOOSE p \in Ids : p \notin DOMAIN h
With(h, p, pat) == [q \in DOMAIN h \cup {p} |-> IF q = p THEN pat ELSE h[q]]
Without(h, gone) == [q \in DOMAIN h \ gone |-> h[q]]

\* A copy has no compiled data.
CopyOf(pat) == [pat EXCEPT !.data = "", !.dirty = TRUE]

\* What each row of the list shows.
Row(pat) == [text |-> pat.text, groups |-> pat.groups]
Rows(h, list) == [i \in DOMAIN list |-> Row(h[list[i]])]

-----------------------------------------------------------------------------
(* player_pattern_lists_compare.                                           *)

\* Mutant: the groups are not compared.
SameText(a, b) == a.text = b.text

SameKey(a, b) == a.text = b.text /\ a.groups = b.groups

\* Mutant: a changed comment does not count.
CompareKeys(new, old) ==
  IF Len(new) # Len(old) THEN "changed"
  ELSE IF \A i \in DOMAIN new : SameKey(new[i], old[i]) THEN "same" ELSE "changed"

\* The second list advances only past equal elements: of the others it is
\* asked whether they come later in it.
Place(list1, list2) ==
  LET At[i \in 1..Len(list1)] ==
        IF i = 1 THEN 1
        ELSE At[i - 1] + IF SameKey(list1[i - 1], list2[At[i - 1]]) THEN 1 ELSE 0
  IN  At

Compare(list1, list2) ==
  LET At == Place(list1, list2)
      Equal(i, j) == SameKey(list1[i], list2[j])
      Later(i) == \E j \in (At[i] + 1)..Len(list2) : Equal(i, j)
  IN  IF \/ Len(list1) # Len(list2)
         \/ \E i \in DOMAIN list1 : ~Equal(i, At[i]) /\ ~Later(i)
      THEN "changed"
      ELSE IF \E i \in DOMAIN list1 :
                ~Equal(i, At[i]) \/ list1[i].comment # list2[At[i]].comment
           THEN "data" ELSE "same"

-----------------------------------------------------------------------------
(* The page.                                                               *)

\* sync_pattern_data.  The buffer of the comment is no GtkEditable: what is
\* read of it is always nothing.
Synced(h, list) ==
  IF row = 0 THEN [heap |-> h, list |-> list]
  ELSE LET p == list[row]
           pat == h[p]
           base == IF pat.dirty THEN pat ELSE CopyOf(pat)
           q == IF pat.dirty THEN p ELSE Fresh(h)
           new == [base EXCEPT !.text = entry, !.comment = FALSE,
                     !.data = IF entry # pat.text THEN Compiled(entry) ELSE @]
       IN  IF entry = pat.text /\ ~pat.comment THEN [heap |-> h, list |-> list]
           ELSE [heap |-> With(h, q, new), list |-> [list EXCEPT ![row] = q]]

\* The select_row callback, once the old row is synchronized;
\* pattern_clist_sync_selection.
Selects(h, list, r) ==
  /\ heap' = h /\ curplrs' = list /\ row' = r
  /\ entry' = IF r = 0 THEN "" ELSE h[list[r]].text

\* (bound) No callback makes more than two patterns.
Room == \A p \in Ids : Ids \ (DOMAIN heap \cup {p}) # {}

Editing == open /\ steps < MaxEdits /\ Room
EditDone == /\ steps' = steps + 1
            /\ shown' = Rows(heap', curplrs')
            /\ UNCHANGED <<players, open, saved, applied>>

\* player_filter_page_init.
Open ==
  /\ ~open
  /\ open' = TRUE
  /\ Selects([p \in DOMAIN heap |-> [heap[p] EXCEPT !.dirty = FALSE]], players,
             IF players = <<>> THEN 0 ELSE 1)
  /\ shown' = Rows(heap', curplrs')
  /\ UNCHANGED <<players, saved, applied, steps>>

SelectRow ==
  /\ Editing
  /\ \E r \in DOMAIN curplrs \ {row} :
       LET s == Synced(heap, curplrs) IN Selects(s.heap, s.list, r)
  /\ EditDone

\* The entry is read only when another callback synchronizes it.
Type ==
  /\ Editing /\ row # 0
  /\ \E t \in Texts \ {entry} :
       /\ entry' = t
       /\ heap' = [heap EXCEPT ![curplrs[row]].own = t]
  /\ UNCHANGED <<curplrs, row>> /\ EditDone

\* "activate" of the entry and "clicked" of the mode buttons.
Activate ==
  /\ Editing /\ row # 0
  /\ LET s == Synced(heap, curplrs)
     IN  s.heap # heap /\ heap' = s.heap /\ curplrs' = s.list
  /\ UNCHANGED <<row, entry>> /\ EditDone

\* Mutant: a pattern that is in use is changed in place.
PutGroupsInPlace(h, list, r, gs) ==
  [heap |-> [h EXCEPT ![list[r]].groups = gs], list |-> list]

PutGroups(h, list, r, gs) ==
  LET p == list[r]
      q == Fresh(h)
  IN  IF h[p].dirty THEN [heap |-> [h EXCEPT ![p].groups = gs], list |-> list]
      ELSE [heap |-> With(h, q, [h[p] EXCEPT !.dirty = TRUE, !.groups = gs,
                                             !.data = Compiled(h[p].text)]),
            list |-> [list EXCEPT ![r] = q]]

\* pattern_clist_event_callback on one of the first columns and
\* pattern_set_groups.
ClickGroup ==
  /\ Editing
  /\ \E r \in DOMAIN curplrs, g \in Groups, add \in BOOLEAN :
       LET s == Synced(heap, curplrs)
           old == s.heap[s.list[r]].groups
           new == IF add /\ old \ {g} # {}
                  THEN (old \ {g}) \cup ({g} \ old) ELSE {g}
           t == IF new = old THEN s ELSE PutGroups(s.heap, s.list, r, new)
       IN  heap' = t.heap /\ curplrs' = t.list
  /\ UNCHANGED <<row, entry>> /\ EditDone

Blank == Pattern([text |-> "", groups |-> {FirstGroup}, comment |-> FALSE])

\* Mutant: current_row stays, and the old row is synchronized where the new
\* pattern is.
AddedUnmoved(r) ==
  LET p == Fresh(heap)
  IN  Synced(With(heap, p, Blank), InsertAt(curplrs, r, p))

\* new_pattern_callback: current_row moves on before the row is inserted, so
\* that its selection synchronizes the old pattern.
Added(r) ==
  LET s == Synced(heap, curplrs)
      p == Fresh(s.heap)
  IN  [heap |-> With(s.heap, p, Blank), list |-> InsertAt(s.list, r, p)]

NewPattern ==
  /\ Editing
  /\ LET r == IF row = 0 THEN 1 ELSE row
     IN  Selects(Added(r).heap, Added(r).list, r)
  /\ EditDone

\* Mutant: a pattern is freed though the list in use has it.
FreedAlways(h, p) == Without(h, {p})

FreedIfDirty(h, p) == IF h[p].dirty THEN Without(h, {p}) ELSE h

\* delete_pattern_callback: the list widget selects a neighbour, or reports the
\* row that is gone, and that is ignored.
DeletePattern ==
  /\ Editing /\ row # 0
  /\ LET list == RemoveAt(curplrs, row)
     IN  \E r \in ({0, row, row - 1} \cap 0..Len(list)) :
           Selects(FreedIfDirty(heap, curplrs[row]), list, r)
  /\ EditDone

\* move_up_down_pattern_callback and pattern_clist_row_move_callback.
MovePattern ==
  /\ Editing /\ row # 0
  /\ \E dest \in DOMAIN curplrs \ {row} :
       /\ curplrs' = InsertAt(RemoveAt(curplrs, row), dest, curplrs[row])
       /\ row' = dest
  /\ UNCHANGED <<heap, entry>> /\ EditDone

Closed == open' = FALSE /\ row' = 0 /\ entry' = "" /\ shown' = <<>>
          /\ curplrs' = <<>>

\* player_filter_new_defaults and player_filter_save_patterns.
Ok ==
  /\ open /\ Room
  /\ LET s == Synced(heap, curplrs)
         new == ToSet(s.list)
         status == Compare(Contents(s.heap, players), Contents(s.heap, s.list))
         marked == [p \in DOMAIN s.heap |->
                      [s.heap[p] EXCEPT !.dirty = @ \/ p \in new]]
     IN  /\ heap' = Without(marked, {p \in ToSet(players) : ~marked[p].dirty})
         /\ players' = s.list
         /\ applied' = IF status = "changed" THEN Verdicts(heap', players') ELSE applied
         /\ saved' = IF status = "same" THEN saved ELSE Contents(heap', players')
  /\ Closed /\ UNCHANGED steps

\* player_filter_cfg_clean_up.
Cancel ==
  /\ open
  /\ LET h == Without(heap, {p \in ToSet(curplrs) : heap[p].dirty})
     IN  heap' = [p \in DOMAIN h |-> [h[p] EXCEPT !.own = h[p].text]]
  /\ Closed /\ UNCHANGED <<players, saved, applied, steps>>

-----------------------------------------------------------------------------
\* player_filter_add_player: the first pattern of that text is taken, a regular
\* expression never.
AddPlayer ==
  /\ ~open /\ steps < MaxEdits
  /\ \E t \in Texts \ (Broken \cup {""}), mask \in (SUBSET Groups) \ {{}} :
       LET found == {i \in DOMAIN players : heap[players[i]].text = t}
           first == CHOOSE i \in found : \A j \in found : i <= j
           p == IF found = {} THEN Fresh(heap) ELSE players[first]
           b == [text |-> t, groups |-> {}, comment |-> FALSE]
           h == IF found = {} THEN With(heap, p, Pattern(b)) ELSE heap
       IN  /\ found = {} => Room
           /\ players' = IF found = {} THEN Append(players, p) ELSE players
           /\ heap' = [h EXCEPT ![p].groups = @ \cup mask]
           /\ IF mask \subseteq h[p].groups THEN UNCHANGED <<saved, applied>>
              ELSE /\ applied' = Verdicts(heap', players')
                   /\ saved' = Contents(heap', players')
  /\ steps' = steps + 1
  /\ UNCHANGED <<curplrs, open, row, entry, shown>>

\* player_filter_init: done and load.
Loaded(file) ==
  LET id == CHOOSE f \in [DOMAIN file -> Ids] : IsInjective(f)
  IN  /\ players = id
      /\ heap = [p \in ToSet(id) |-> Pattern(file[CHOOSE i \in DOMAIN id : id[i] = p])]

Init ==
  /\ saved \in SavedBefore
  /\ Loaded(saved)
  /\ applied = Verdicts(heap, players)
  /\ curplrs = <<>> /\ open = FALSE /\ row = 0 /\ entry = "" /\ shown = <<>> /\ steps = 0

Next ==
  \/ Open \/ SelectRow \/ Type \/ Activate \/ ClickGroup
  \/ NewPattern \/ DeletePattern \/ MovePattern
  \/ Ok \/ Cancel \/ AddPlayer

Spec == Init /\ [][Next]_vars

-----------------------------------------------------------------------------
(* Properties.                                                             *)

\* The variables have their types.
TypeOK ==
  /\ DOMAIN heap \subseteq Ids
  /\ \A p \in DOMAIN heap :
       /\ BodyOf(heap[p]) \in Body /\ heap[p].data \in Texts /\ heap[p].own \in Texts
       /\ heap[p].dirty \in BOOLEAN
  /\ players \in Seq(Ids) /\ curplrs \in Seq(Ids)
  /\ open \in BOOLEAN /\ row \in Nat /\ entry \in Texts /\ steps \in 0..MaxEdits
  /\ saved \in Seq(Body)

\* Two lists of pointers share their patterns: none is freed that one of them
\* still has, and none is kept that neither has, through copies, deletions, OK
\* and Cancel (free_player_pattern at flt-player.c:550, 919 and 951).
HeapExact == DOMAIN heap = ToSet(players) \cup ToSet(curplrs)

\* What the page does to its copies does not reach the list that the filter
\* of a running job reads: until OK every player keeps his groups.
Untouched == [][open /\ players' = players /\ ~(open' = FALSE /\ saved' # saved) =>
                  Verdicts(heap', players') = Verdicts(heap, players)]_vars

\* A text goes to the pattern that was selected when it was typed, whatever was
\* selected, added, deleted or moved before it was read.
EditsKept == ~open => \A p \in ToSet(players) : heap[p].text = heap[p].own

\* A restart finds what OK and Add Player left: every change that the program
\* makes of the list is seen by the comparison and written.
FileIsList == ~open => saved = Contents(heap, players)

\* The comparison sees every change that matters, if the list had neither
\* repeated patterns nor comments, nor a pattern whose copy lost its compiled
\* data: last_changed is dated when the groups of a player change.
Plain ==
  /\ IsInjective(Contents(heap, players))
  /\ \A p \in ToSet(players) : ~heap[p].comment /\ heap[p].data = Compiled(heap[p].text)

FreshUnlessRepeated ==
  [][(heap' # heap \/ players' # players) /\ applied = Verdicts(heap, players) /\ Plain
       => applied' = Verdicts(heap', players')]_<<heap, players>>

=============================================================================
