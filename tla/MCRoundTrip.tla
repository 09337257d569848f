----------------------------- MODULE MCRoundTrip -----------------------------
\* The instance of RoundTrip for TLC: the XRPL with one decimal, Cosmos tokens
\* with up to three, and precisions from tens to tenths, so that tokens have
\* fewer, as many and more decimals than the XRPL and precisions on both sides
\* of zero.
EXTENDS RoundTrip

MinPrecision == -1

=============================================================================
