-------------------------- MODULE SubscriptionBits --------------------------
(***************************************************************************)
(* Where the subscription of a module to an event type is kept: one bit per *)
(* type in an array of bytes of the module (bitref.h, event_type.h,         *)
(* module.h).  Memory is the set of the bits that are 1; it goes on behind  *)
(* the array, where other data lies.                                        *)
(***************************************************************************)
EXTENDS Integers

CONSTANTS ER_EVENT_TYPE__OFFSET, \* the value of the first event type
          ER_EVENT_TYPE__COUNT   \* the number of event types

ASSUME TypesAssumption ==
  ER_EVENT_TYPE__OFFSET \in Nat /\ ER_EVENT_TYPE__COUNT \in Nat \ {0}

CHAR_BIT == 8

ER_EVENT_TYPE__FIRST == ER_EVENT_TYPE__OFFSET
ER_EVENT_TYPE__LAST == ER_EVENT_TYPE__OFFSET + ER_EVENT_TYPE__COUNT - 1

(* The types that IsEventTypeRoutable() lets through.                      *)
RoutableType == ER_EVENT_TYPE__FIRST .. ER_EVENT_TYPE__LAST

(* Mistake: the bits of the last, incomplete byte have no byte.            *)
BugArrayBytes == ER_EVENT_TYPE__COUNT \div CHAR_BIT

(* The bytes of m_subscriptions.                                           *)
ArrayBytes == (ER_EVENT_TYPE__COUNT + (CHAR_BIT - 1)) \div CHAR_BIT

BitRef == [m_byte : Nat, m_bit : 0..(CHAR_BIT - 1)]

GetBitRef(bit) == [m_byte |-> bit \div CHAR_BIT, m_bit |-> bit % CHAR_BIT]

IsSet(memory, ty) == GetBitRef(ty) \in memory
SetBit(memory, ty) == memory \cup {GetBitRef(ty)}
ClearBit(memory, ty) == memory \ {GetBitRef(ty)}

(* memset() of the whole array.                                            *)
ClearArray(memory) == {r \in memory : r.m_byte >= ArrayBytes}

InArray(memory) == \A r \in memory : r.m_byte < ArrayBytes
=============================================================================
