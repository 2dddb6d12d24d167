---------------------------- MODULE AsconVectors ----------------------------
(***************************************************************************)
(* Known answers from the repository's own test data                       *)
(* (src/ascon_tests/test_data_128.c and test_data_128a.c).  Key and nonce  *)
(* are the bytes 0, 1 .. 15; message and associated data are 0, 1, 2 ..    *)
(* The vectors chosen lie around the word and block boundaries.            *)
(***************************************************************************)
EXTENDS Integers

Vectors128 == {
  [msglen |-> 0, adlen |-> 0, ct |->
    <<>>,
   tag |->
    <<227, 85, 21, 159, 41, 41, 17, 247, 148, 203, 20, 50, 160, 16, 58, 138>>],
  [msglen |-> 0, adlen |-> 8, ct |->
    <<>>,
   tag |->
    <<227, 220, 249, 95, 134, 151, 82, 246, 28, 215, 162, 219, 137, 95, 145,
      142>>],
  [msglen |-> 1, adlen |-> 0, ct |->
    <<188>>,
   tag |->
    <<24, 195, 244, 227, 158, 202, 114, 34, 73, 13, 150, 124, 121, 191, 252,
      146>>],
  [msglen |-> 7, adlen |-> 1, ct |->
    <<189, 70, 64, 196, 218, 47, 250>>,
   tag |->
    <<3, 183, 79, 105, 140, 105, 90, 116, 13, 233, 248, 185, 192, 96, 204, 227>>],
  [msglen |-> 8, adlen |-> 7, ct |->
    <<46, 91, 186, 222, 149, 153, 172, 159>>,
   tag |->
    <<134, 59, 1, 217, 91, 137, 69, 112, 59, 59, 74, 153, 181, 232, 71, 161>>],
  [msglen |-> 9, adlen |-> 9, ct |->
    <<50, 37, 2, 101, 153, 188, 212, 252, 196>>,
   tag |->
    <<226, 34, 32, 6, 194, 162, 41, 75, 133, 90, 71, 74, 123, 192, 193, 131>>],
  [msglen |-> 15, adlen |-> 0, ct |->
    <<188, 130, 13, 189, 247, 164, 99, 28, 91, 41, 136, 74, 214, 145, 117>>,
   tag |->
    <<22, 212, 32, 165, 188, 46, 83, 87, 208, 16, 129, 143, 11, 95, 120, 89>>],
  [msglen |-> 16, adlen |-> 16, ct |->
    <<30, 227, 65, 37, 253, 186, 23, 68, 61, 1, 218, 138, 14, 239, 176, 69>>,
   tag |->
    <<66, 129, 209, 211, 185, 98, 65, 141, 46, 28, 138, 109, 20, 243, 232, 162>>],
  [msglen |-> 17, adlen |-> 15, ct |->
    <<46, 131, 204, 54, 240, 136, 35, 42, 142, 233, 186, 183, 77, 2, 147,
      142, 157>>,
   tag |->
    <<147, 44, 13, 61, 139, 55, 96, 33, 227, 42, 125, 230, 178, 226, 78, 134>>],
  [msglen |-> 24, adlen |-> 32, ct |->
    <<185, 108, 120, 101, 27, 98, 70, 176, 195, 177, 165, 211, 115, 176, 213,
      22, 141, 202, 74, 150, 115, 76, 240, 221>>,
   tag |->
    <<50, 188, 58, 174, 226, 200, 199, 100, 146, 152, 238, 156, 94, 213, 248,
      248>>]}

Vectors128a == {
  [msglen |-> 0, adlen |-> 0, ct |->
    <<>>,
   tag |->
    <<122, 131, 78, 111, 9, 33, 9, 87, 6, 123, 16, 253, 131, 31, 0, 120>>],
  [msglen |-> 0, adlen |-> 16, ct |->
    <<>>,
   tag |->
    <<86, 193, 94, 176, 36, 222, 145, 202, 1, 101, 54, 42, 73, 179, 30, 189>>],
  [msglen |-> 1, adlen |-> 0, ct |->
    <<110>>,
   tag |->
    <<101, 43, 85, 191, 220, 140, 173, 46, 196, 56, 21, 177, 102, 107, 26, 58>>],
  [msglen |-> 7, adlen |-> 8, ct |->
    <<52, 211, 183, 237, 184, 155, 29>>,
   tag |->
    <<171, 0, 225, 46, 167, 188, 90, 83, 106, 164, 95, 198, 144, 31, 50, 230>>],
  [msglen |-> 8, adlen |-> 7, ct |->
    <<175, 247, 219, 243, 9, 55, 41, 113>>,
   tag |->
    <<187, 2, 104, 248, 189, 81, 85, 213, 215, 214, 213, 133, 144, 186, 225,
      196>>],
  [msglen |-> 9, adlen |-> 1, ct |->
    <<233, 45, 42, 101, 206, 233, 114, 127, 178>>,
   tag |->
    <<41, 205, 254, 204, 98, 26, 202, 114, 94, 96, 87, 85, 113, 148, 111, 149>>],
  [msglen |-> 15, adlen |-> 15, ct |->
    <<141, 162, 237, 149, 214, 67, 82, 74, 201, 154, 27, 187, 34, 148, 147>>,
   tag |->
    <<111, 104, 189, 137, 121, 82, 91, 106, 78, 88, 116, 190, 104, 133, 238,
      199>>],
  [msglen |-> 16, adlen |-> 17, ct |->
    <<188, 38, 160, 113, 200, 110, 22, 173, 37, 31, 210, 173, 141, 49, 57, 244>>,
   tag |->
    <<64, 205, 183, 41, 248, 188, 187, 188, 223, 55, 126, 45, 56, 211, 239, 21>>],
  [msglen |-> 17, adlen |-> 24, ct |->
    <<142, 47, 159, 20, 37, 127, 197, 240, 53, 34, 88, 87, 212, 61, 202, 218,
      127>>,
   tag |->
    <<11, 194, 2, 46, 78, 243, 163, 218, 45, 199, 118, 59, 252, 191, 106, 141>>],
  [msglen |-> 32, adlen |-> 31, ct |->
    <<248, 68, 85, 161, 99, 192, 21, 47, 255, 244, 18, 26, 154, 58, 40, 60,
      51, 163, 21, 251, 200, 191, 106, 204, 179, 127, 67, 15, 227, 166, 9, 15>>,
   tag |->
    <<68, 70, 85, 197, 155, 173, 17, 29, 162, 234, 71, 92, 80, 131, 44, 176>>]}

==============================================================================
