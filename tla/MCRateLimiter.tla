--------------------------- MODULE MCRateLimiter ---------------------------
\* Checks the limiter; MCRateLimiter.cfg gives the constants their values.
EXTENDS RateLimiter
=============================================================================
