-------------------------- MODULE MCMailLifecycle --------------------------
EXTENDS MailLifecycle, TLC

\* One byte per key number, so that keys differ in size.
KeySize == [c \in Contents |-> c]

Symmetry == Permutations(Inboxes) \union Permutations(Deliveries) \union Permutations(Requests)
=============================================================================
