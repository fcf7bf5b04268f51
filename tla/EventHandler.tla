---------------------------- MODULE EventHandler ----------------------------
(***************************************************************************)
(* src/src/EventHandler.c: the registry of event handlers.  handler_array  *)
(* has MAX_EVENTS slots; a slot holds an event id (0 while the slot is     *)
(* free) and the list of the handlers registered for it.  A slot is found  *)
(* by linear search.  The C lists are sequences: list_add_tail appends,    *)
(* list_for_each_entry_safe runs from head to tail.                        *)
(***************************************************************************)
EXTENDS Integers, Sequences

CONSTANTS Handlers,      \* the EventHandler structs of the analysis program
          EventIdOf,     \* their event_id fields
          MaxEvents      \* MAX_EVENTS, 200 in include/Macros.h

ASSUME MaxEventsAssumption == MaxEvents \in Nat

(* 0 is no trace record's id; a handler with id 0 would take a free slot.  *)
ASSUME EventIdOfAssumption == EventIdOf \in [Handlers -> Nat \ {0}]

VARIABLE handlerArray    \* reader->handler_array

Slots == 0 .. MaxEvents - 1

FreeSlot == [event_id |-> 0, handler_list |-> << >>]

(* mutant: the slots are not cleared *)
GarbageSlots ==
    handlerArray = [slot \in Slots |-> [event_id |-> -1, handler_list |-> << >>]]

(* reader_init, the loop over handler_array *)
EvhInit == handlerArray = [slot \in Slots |-> FreeSlot]

-----------------------------------------------------------------------------
(* The slot at which a linear search for one of S stops *)
IsFirst(slot, S) == slot \in S /\ \A s \in S : slot <= s

SlotsWith(ids) == {slot \in Slots : handlerArray[slot].event_id \in ids}

(* mutant: the search stops at free slots only *)
TakesFreeSlot(slot, h) == IsFirst(slot, SlotsWith({0}))

(* evh_register_handler: the first slot that has the id or is free; the    *)
(* handler is turned away, with a message, if there is none.               *)
Accepts(slot, h) == IsFirst(slot, SlotsWith({0, EventIdOf[h]}))

(* mutant: list_add for list_add_tail *)
RegisterInFront(h) ==
    \/ \E slot \in Slots :
         /\ Accepts(slot, h)
         /\ handlerArray' =
              [handlerArray EXCEPT ![slot] =
                 [event_id |-> EventIdOf[h],
                  handler_list |-> <<h>> \o @.handler_list]]
    \/ /\ \A slot \in Slots : ~Accepts(slot, h)
       /\ UNCHANGED handlerArray

EvhRegisterHandler(h) ==
    \/ \E slot \in Slots :
         /\ Accepts(slot, h)
         /\ handlerArray' =
              [handlerArray EXCEPT ![slot] =
                 [event_id |-> EventIdOf[h],
                  handler_list |-> Append(@.handler_list, h)]]
    \/ /\ \A slot \in Slots : ~Accepts(slot, h)
       /\ UNCHANGED handlerArray

(* evh_call_handlers: the callbacks an event is passed to, in this order *)
CalledFor(id) ==
    IF SlotsWith({id}) = {} THEN << >>
    ELSE handlerArray[CHOOSE slot \in Slots : IsFirst(slot, SlotsWith({id}))].handler_list

(* mutant: the walk ends before the last slot *)
InUseButLast(slot) == /\ slot \in Slots \ {MaxEvents - 1}
                      /\ SlotsWith({0}) \cap 0 .. slot = {}

(* evh_call_initializers and evh_call_finalizers walk the slots up to the  *)
(* first free one: the callback at position k of a slot's list.            *)
InUse(slot) == slot \in Slots /\ SlotsWith({0}) \cap 0 .. slot = {}

IsCallback(slot, k) == /\ InUse(slot)
                       /\ k \in DOMAIN handlerArray[slot].handler_list
=============================================================================
