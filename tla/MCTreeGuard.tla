---------------------------- MODULE MCTreeGuard ----------------------------
EXTENDS TreeGuard
CONSTANTS w2, x1

\* Two writers and a reader, or a writer and two readers one of which is on the cli tier.
MCLacking == {{x1}, {w2}}
=============================================================================
