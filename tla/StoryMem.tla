------------------------------ MODULE StoryMem ------------------------------
(***************************************************************************)
(* Story memory as the reference interpreter has it: host/story_mem.c.     *)
(* The whole image is in memory, a function from addresses to bytes.       *)
(***************************************************************************)
EXTENDS Outcome

story_mem_read8(image, address) ==
  IF address \in DOMAIN image THEN Value(image, image[address]) ELSE Fail(image)

\* Big-endian; the last address of the address space has no second byte.
story_mem_read16(image, last, address, byte_mod) ==
  IF address = last THEN Fail(image)
  ELSE Then(story_mem_read8(image, address), LAMBDA high :
         Then(story_mem_read8(image, address + 1), LAMBDA low :
           Value(image, byte_mod * high.value + low.value)))
=============================================================================
