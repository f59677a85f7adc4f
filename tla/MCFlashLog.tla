----------------------------- MODULE MCFlashLog -----------------------------
EXTENDS FlashLog
=============================================================================
