---- MODULE MCStreamCipher ----
EXTENDS StreamCipher
====
