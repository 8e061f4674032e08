------------------------------- MODULE MCSubs -------------------------------
(* Instances of SubscriptionStore for TLC. *)
EXTENDS SubscriptionStore

CONSTANTS u, v, s, bad

\* The master lists a URL the admin may add too, with one of the command line,
\* then one that serves nothing instead; v is only ever the admin's.
MCDesired == {{u, s}, {bad}}

=============================================================================
