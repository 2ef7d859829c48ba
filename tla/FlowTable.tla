------------------------------ MODULE FlowTable ------------------------------
(***************************************************************************)
(* flow_table.py: TableEntry, FlowTable and SwitchFlowTable.  The table is *)
(* a sequence of entries, sorted by priority; entries that wildcard        *)
(* nothing come first.  Timeouts are abstracted: an entry that has one may *)
(* have expired whenever remove_expired_entries() is called.               *)
(***************************************************************************)
EXTENDS OfpMatch, SequencesExt

OFPFC_ADD == 0
OFPFC_MODIFY == 1
OFPFC_MODIFY_STRICT == 2
OFPFC_DELETE == 3
OFPFC_DELETE_STRICT == 4

(* TableEntry.from_flow_mod() *)
from_flow_mod(fm) ==
    [match |-> fm.match, priority |-> fm.priority, actions |-> fm.actions,
     timeout |-> fm.timeout, for |-> fm.for]

EffectivePriority(e) == IF is_wildcarded(e.match) THEN e.priority ELSE 2 ^ 16 + 1

(* append and a stable sort, highest priority first *)
add_entry(table, e) ==
    SelectSeq(table, LAMBDA x : EffectivePriority(x) >= EffectivePriority(e))
      \o <<e>> \o
    SelectSeq(table, LAMBDA x : EffectivePriority(x) < EffectivePriority(e))

(* TableEntry.is_matched_by() *)
is_matched_by(e, match, priority, strict) ==
    IF strict THEN Same(e.match, match) /\ e.priority = priority
    ELSE matches_with_wildcards(match, e.match, TRUE)

remove_matching_entries(table, match, priority, strict) ==
    SelectSeq(table, LAMBDA e : ~ is_matched_by(e, match, priority, strict))

(* Any of the entries with a timeout may be expired. *)
expired_entries(table) == SUBSET {i \in DOMAIN table : table[i].timeout}
remove_expired_entries(table, expired) ==
    LET keep == SelectSeq([i \in DOMAIN table |-> i], LAMBDA i : i \notin expired)
    IN  [i \in DOMAIN keep |-> table[keep[i]]]

LastMatching(table, p, in_port) ==
    SelectLastInSeq(table, LAMBDA e : matches_with_wildcards(e.match, from_packet(p, in_port), FALSE))
(* entry_for_packet(): the index of the first entry that matches, or 0 *)
entry_for_packet(table, p, in_port) ==
    SelectInSeq(table, LAMBDA e : matches_with_wildcards(e.match, from_packet(p, in_port), FALSE))

(* SwitchFlowTable.process_flow_mod().  OFPFC_DELETE is strict as well. *)
process_flow_mod(table, fm) ==
    CASE fm.command = OFPFC_ADD ->
           add_entry(remove_matching_entries(table, fm.match, fm.priority, TRUE),
                     from_flow_mod(fm))
      [] fm.command \in {OFPFC_MODIFY, OFPFC_MODIFY_STRICT} ->
           LET strict == fm.command = OFPFC_MODIFY_STRICT
               hit(e) == is_matched_by(e, fm.match, fm.priority, strict)
           IN  IF \E i \in DOMAIN table : hit(table[i])
               THEN [i \in DOMAIN table |->
                       IF hit(table[i]) THEN [table[i] EXCEPT !.actions = fm.actions]
                       ELSE table[i]]
               ELSE add_entry(table, from_flow_mod(fm))
      [] fm.command \in {OFPFC_DELETE, OFPFC_DELETE_STRICT} ->
           remove_matching_entries(table, fm.match, fm.priority, TRUE)

(* Flags and out_port that are not implemented raise, as does an unknown   *)
(* command.                                                                *)
FlowModRaises(fm) == fm.check_overlap \/ fm.out_port # None \/ fm.command \notin 0 .. 4
=============================================================================
