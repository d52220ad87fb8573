------------------------------ MODULE MCProxy ------------------------------
\* Up to three managers at a time on each of the three proxies.
EXTENDS Proxy
=============================================================================
